---- MODULE Spec2Model ----
(***************************************************************************)
(* scubainit: the container entrypoint helper of scuba.  One invocation    *)
(* reads its configuration from the environment, provisions an identity    *)
(* in /etc/group, /etc/passwd and /etc/shadow, runs the root hook, drops   *)
(* privileges, applies the umask, runs the user hook and replaces itself   *)
(* with the target program.                                                *)
(*                                                                         *)
(* Text is modelled as sequences of one-character strings, a file as the   *)
(* sequence of its bytes (newlines included).                              *)
(***************************************************************************)
EXTENDS Integers, Sequences, FiniteSets, TLC

VARIABLES
    pc,        \* position of the process in main / run_scubainit / change_user
    env,       \* the process environment: variable name -> value
    argv,      \* env::args_os().skip(1): the target command and its arguments
    ctx,       \* the Context built by process_envvars
    files,     \* content of /etc/group, /etc/passwd, /etc/shadow
    homedir,   \* the directory at UserInfo::home_dir()
    proc,      \* uid, gid, supplementary groups and umask of the process
    result,    \* what run_scubainit returned to main
    exit,      \* how the process ended
    orig,      \* the environment, account files and home directory at start
    trace,     \* the operations issued so far, in order, each with the
               \* process state and identity variables it was issued under
    arg,       \* a direct call of one operation: the inputs it is called with
    ret        \* a direct call of one operation: what the calls made returned

vars == <<pc, env, argv, ctx, files, homedir, proc, result, exit, orig, trace, arg, ret>>

----------------------------------------------------------------------------
\* Bounds of the model.

\* Longest initial account file, in lines.
MaxFileLines == 1

\* Longest account file an operation is called on directly, in lines.
MaxCallLines == 2

\* How many times in succession an operation is called directly.
MaxCalls == 2

\* How many fields of a sample line are replaced at once.
MaxEdits == 1

\* The longest text split_csv_str is tried on.
MaxCsvLen == 4

\* The largest file mode make_executable is tried on: 0o7777.
MaxMode == 4095

----------------------------------------------------------------------------
\* Text helpers (Rust str / String operations used by the code).

Digits == <<"0", "1", "2", "3", "4", "5", "6", "7", "8", "9">>

IsDigit(c) == \E i \in 1..10 : Digits[i] = c

DigitVal(c) == (CHOOSE i \in 1..10 : Digits[i] = c) - 1

\* char::is_whitespace for the characters of the model
IsWhitespace(c) == c \in {" ", "\t", "\n", "\r"}

\* str::split(sep): the pieces between separators; "" splits to one empty piece
RECURSIVE SplitFrom(_, _, _)
SplitFrom(s, sep, cur) ==
    IF s = <<>> THEN <<cur>>
    ELSE IF Head(s) = sep THEN <<cur>> \o SplitFrom(Tail(s), sep, <<>>)
    ELSE SplitFrom(Tail(s), sep, Append(cur, Head(s)))

Split(s, sep) == SplitFrom(s, sep, <<>>)

\* [String]::join(sep)
RECURSIVE Join(_, _)
Join(ss, sep) ==
    IF ss = <<>> THEN <<>>
    ELSE IF Len(ss) = 1 THEN ss[1]
    ELSE ss[1] \o <<sep>> \o Join(Tail(ss), sep)

\* a trim that removes the newline ending a line and nothing else
TrimEnd_NewlineOnly(s) ==
    IF s # <<>> /\ s[Len(s)] = "\n" THEN SubSeq(s, 1, Len(s) - 1) ELSE s

\* str::trim_end(): drops every trailing whitespace character
RECURSIVE TrimEnd(_)
TrimEnd(s) ==
    IF s # <<>> /\ IsWhitespace(s[Len(s)]) THEN TrimEnd(SubSeq(s, 1, Len(s) - 1))
    ELSE s

\* A u32 is held in an integer of the checker, which is 32 bits wide and
\* signed: a value below 2^31 is held as itself and a value from 2^31 up as
\* the value less 2^32, the same 32 bits.  U32Hi and U32Lo are the upper and
\* the lower 16 bits of the value held, U32Of the value of two such halves.
U32Hi(n) == IF n < 0 THEN 65536 + (n \div 65536) ELSE n \div 65536
U32Lo(n) == n % 65536
U32Of(hi, lo) == IF hi < 32768 THEN hi * 65536 + lo ELSE (hi - 65536) * 65536 + lo

\* the quotient and the remainder of a u32 from 2^31 up divided by ten
U32Div10(n) == (U32Hi(n) \div 10) * 65536 + ((U32Hi(n) % 10) * 65536 + U32Lo(n)) \div 10
U32Mod10(n) == ((U32Hi(n) % 10) * 65536 + U32Lo(n)) % 10

\* u32 Display
RECURSIVE U32ToString(_)
U32ToString(n) ==
    IF n < 0 THEN Append(U32ToString(U32Div10(n)), Digits[U32Mod10(n) + 1])
    ELSE IF n < 10 THEN <<Digits[n + 1]>>
    ELSE Append(U32ToString(n \div 10), Digits[(n % 10) + 1])

RECURSIVE DigitsValue(_, _)
DigitsValue(s, acc) ==
    IF s = <<>> THEN acc ELSE DigitsValue(Tail(s), acc * 10 + DigitVal(Head(s)))

\* str::parse::<u32>(), the loop over the digits: result = result * 10 +
\* digit with checked_mul and checked_add, an overflow being an error.  The
\* result so far is kept as its upper and lower 16 bits, low being the lower
\* half times ten plus the digit.
RECURSIVE ParseDigits(_, _, _)
ParseDigitsCarry_Wrapping(s, hi, low) ==
    ParseDigits(Tail(s), (hi * 10 + low \div 65536) % 65536, low % 65536)

ParseDigitsCarry(s, hi, low) ==
    IF hi * 10 + low \div 65536 >= 65536 THEN [ok |-> FALSE, val |-> 0]
    ELSE ParseDigits(Tail(s), hi * 10 + low \div 65536, low % 65536)

ParseDigits(s, hi, lo) ==
    IF s = <<>> THEN [ok |-> TRUE, val |-> U32Of(hi, lo)]
    ELSE ParseDigitsCarry(s, hi, lo * 10 + DigitVal(Head(s)))

\* str::parse::<u32>(): an optional '+', then one or more decimal digits
\* whose value is at most u32::MAX
ParseU32(s) ==
    LET body == IF s # <<>> /\ Head(s) = "+" THEN Tail(s) ELSE s
    IN  IF body = <<>> \/ \E i \in 1..Len(body) : ~IsDigit(body[i])
        THEN [ok |-> FALSE, val |-> 0]
        ELSE ParseDigits(body, 0, 0)

----------------------------------------------------------------------------
\* The environment.  A variable is unset, holds text, or holds bytes that
\* are not valid Unicode (env::var reports those as Err(NotUnicode)).

Unset == [k |-> "unset", s |-> <<>>]
NotUnicode == [k |-> "not_unicode", s |-> <<>>]
Text(s) == [k |-> "text", s |-> s]

None == [some |-> FALSE]
Some(v) == [some |-> TRUE, v |-> v]

\* an Ok / Err result carrying the environment after the call
Ok(v, e) == [ok |-> TRUE, v |-> v, env |-> e]
Err(e) == [ok |-> FALSE, v |-> None, env |-> e]

\* util::pop_env_str: env::var(name).ok()?, then env::remove_var(name)
pop_env_str(e, name) ==
    IF e[name].k = "text"
    THEN [v |-> Some(e[name].s), env |-> [e EXCEPT ![name] = Unset]]
    ELSE [v |-> None, env |-> e]

\* util::pop_env_uint, from the popped string on
pop_env_uint_parse(p) ==
    IF ~p.v.some THEN Ok(None, p.env)
    ELSE IF ParseU32(p.v.v).ok THEN Ok(Some(ParseU32(p.v.v).val), p.env)
    ELSE Err(p.env)

\* util::pop_env_uint
pop_env_uint(e, name) == pop_env_uint_parse(pop_env_str(e, name))

\* util::pop_env_bool
pop_env_bool(e, name) ==
    [v |-> e[name].k = "text", env |-> [e EXCEPT ![name] = Unset]]

\* process_envvars_user_info, the match on how many of the four are set
user_info_match(uid, gid, user, group) ==
    LET vars_some == <<uid.v.some, gid.v.some, user.v.some, group.v.some>>
        count == Cardinality({i \in 1..4 : vars_some[i]})
    IN  IF count = 0 THEN Ok(None, group.env)
        ELSE IF count = Len(vars_some)
        THEN Ok(Some([uid |-> uid.v.v, gid |-> gid.v.v,
                      user |-> user.v.v, group |-> group.v.v]), group.env)
        ELSE Err(group.env)

\* process_envvars_user_info, from "let group = pop_env_str(SCUBAINIT_GROUP)" on
user_info_group(uid, gid, user) ==
    user_info_match(uid, gid, user, pop_env_str(user.env, "SCUBAINIT_GROUP"))

\* process_envvars_user_info, from "let user = pop_env_str(SCUBAINIT_USER)" on
user_info_gid(uid, gid) ==
    IF ~gid.ok THEN Err(gid.env)
    ELSE user_info_group(uid, gid, pop_env_str(gid.env, "SCUBAINIT_USER"))

\* process_envvars_user_info, from "let gid = pop_env_uint(SCUBAINIT_GID)?" on
user_info_uid(uid) ==
    IF ~uid.ok THEN Err(uid.env)
    ELSE user_info_gid(uid, pop_env_uint(uid.env, "SCUBAINIT_GID"))

\* main.rs process_envvars_user_info
process_envvars_user_info(e) == user_info_uid(pop_env_uint(e, "SCUBAINIT_UID"))

NoContext == [user_info |-> None, umask |-> None, user_hook |-> None, root_hook |-> None]

CtxErr(e) == [ok |-> FALSE, v |-> NoContext, env |-> e]

\* process_envvars, the Context literal once every variable is popped
context_of(ui, umask, user_hook, root_hook) ==
    [ok |-> TRUE,
     v |-> [user_info |-> ui.v, umask |-> umask.v,
            user_hook |-> user_hook.v, root_hook |-> root_hook.v],
     env |-> root_hook.env]

\* process_envvars, from "root_hook: pop_env_str(SCUBAINIT_HOOK_ROOT)" on
context_hooks(ui, umask, user_hook) ==
    context_of(ui, umask, user_hook, pop_env_str(user_hook.env, "SCUBAINIT_HOOK_ROOT"))

\* process_envvars, from "user_hook: pop_env_str(SCUBAINIT_HOOK_USER)" on
context_umask(ui, umask) ==
    IF ~umask.ok THEN CtxErr(umask.env)
    ELSE context_hooks(ui, umask, pop_env_str(umask.env, "SCUBAINIT_HOOK_USER"))

\* process_envvars, from "umask: pop_env_uint(SCUBAINIT_UMASK)?" on
context_user_info(ui) ==
    IF ~ui.ok THEN CtxErr(ui.env)
    ELSE context_umask(ui, pop_env_uint(ui.env, "SCUBAINIT_UMASK"))

\* main.rs process_envvars
process_envvars(e) ==
    context_user_info(process_envvars_user_info(
        [e EXCEPT !["PWD"] = Unset, !["OLDPWD"] = Unset, !["XAUTHORITY"] = Unset]))

----------------------------------------------------------------------------
\* Account files: entfiles.rs and the three schemas.

\* a byte that is not valid UTF-8: BufRead::read_line fails on a line holding it
BadByte == "\\xFF"

ParseOk(v) == [ok |-> TRUE, err |-> "", v |-> v]
ParseErr(e) == [ok |-> FALSE, err |-> e, v |-> <<>>]

\* parts.next().ok_or(ReadEntryError::Invalid) on the i-th field
next_field_Lenient(parts, i) ==
    IF i <= Len(parts) THEN ParseOk(parts[i]) ELSE ParseOk(<<>>)

next_field(parts, i) ==
    IF i <= Len(parts) THEN ParseOk(parts[i]) ELSE ParseErr("Invalid")

\* .parse().map_err(ReadEntryError::ParseInt) on a field that was there
parse_field_u32_EmptyZero(f) ==
    IF ~f.ok THEN f
    ELSE IF f.v = <<>> THEN ParseOk(0)
    ELSE IF ParseU32(f.v).ok THEN ParseOk(ParseU32(f.v).val)
    ELSE ParseErr("ParseInt")

parse_field_u32(f) ==
    IF ~f.ok THEN f
    ELSE IF ParseU32(f.v).ok THEN ParseOk(ParseU32(f.v).val)
    ELSE ParseErr("ParseInt")

\* next_field()?.parse().map_err(ReadEntryError::ParseInt)
next_field_u32(parts, i) == parse_field_u32(next_field(parts, i))

\* util::maybe_parse
maybe_parse_Lenient(input) ==
    IF input = <<>> THEN ParseOk(None)
    ELSE IF ParseU32(input).ok THEN ParseOk(Some(ParseU32(input).val))
    ELSE ParseOk(None)

maybe_parse(input) ==
    IF input = <<>> THEN ParseOk(None)
    ELSE IF ParseU32(input).ok THEN ParseOk(Some(ParseU32(input).val))
    ELSE ParseErr("ParseInt")

\* maybe_parse on a field that was there
parse_field_u32_opt(f) == IF ~f.ok THEN f ELSE maybe_parse(f.v)

\* maybe_parse(next_field()?).map_err(ReadEntryError::ParseInt)
next_field_u32_opt(parts, i) == parse_field_u32_opt(next_field(parts, i))

\* util::split_csv_str
split_csv_str_NoEmpty(input) == Split(input, ",")

split_csv_str_SkipEmpty(input) == SelectSeq(Split(input, ","), LAMBDA x : x # <<>>)

split_csv_str(input) == IF input = <<>> THEN <<>> ELSE Split(input, ",")

\* util::to_string_or_empty
to_string_or_empty_Zero(value) == U32ToString(IF value.some THEN value.v ELSE 0)

to_string_or_empty(value) == IF value.some THEN U32ToString(value.v) ELSE <<>>

\* the first failing field of fs decides the error (the ? operator, left to right)
\* the error of the last field that failed
FirstErr_Last(fs) ==
    fs[CHOOSE i \in 1..Len(fs) : ~fs[i].ok /\ \A j \in (i + 1)..Len(fs) : fs[j].ok]

FirstErr(fs) == fs[CHOOSE i \in 1..Len(fs) : ~fs[i].ok /\ \A j \in 1..(i - 1) : fs[j].ok]

AllOk(fs) == \A i \in 1..Len(fs) : fs[i].ok

\* GroupEntry::from_line, the struct literal over the four field results
GroupFromFields(fs) ==
    IF ~AllOk(fs) THEN ParseErr(FirstErr(fs).err)
    ELSE ParseOk([name |-> fs[1].v, passwd |-> fs[2].v, gid |-> fs[3].v,
                  members |-> split_csv_str(fs[4].v)])

\* GroupEntry::from_line, the fields taken from line.split(":")
GroupFromParts(parts) ==
    GroupFromFields(<<next_field(parts, 1), next_field(parts, 2),
                      next_field_u32(parts, 3), next_field(parts, 4)>>)

\* GroupEntry::from_line
GroupFromLine(line) == GroupFromParts(Split(line, ":"))

\* GroupEntry::to_line
GroupToLine(g) ==
    Join(<<g.name, g.passwd, U32ToString(g.gid), Join(g.members, ",")>>, ":")

\* PasswdEntry::from_line, the struct literal over the seven field results
PasswdFromFields(fs) ==
    IF ~AllOk(fs) THEN ParseErr(FirstErr(fs).err)
    ELSE ParseOk([name |-> fs[1].v, passwd |-> fs[2].v, uid |-> fs[3].v,
                  gid |-> fs[4].v, gecos |-> fs[5].v, home_dir |-> fs[6].v,
                  shell |-> fs[7].v])

\* PasswdEntry::from_line, the fields taken from line.split(":")
PasswdFromParts(parts) ==
    PasswdFromFields(<<next_field(parts, 1), next_field(parts, 2),
                       next_field_u32(parts, 3), next_field_u32(parts, 4),
                       next_field(parts, 5), next_field(parts, 6),
                       next_field(parts, 7)>>)

\* PasswdEntry::from_line
PasswdFromLine(line) == PasswdFromParts(Split(line, ":"))

\* PasswdEntry::to_line
PasswdToLine(p) ==
    Join(<<p.name, p.passwd, U32ToString(p.uid), U32ToString(p.gid),
           p.gecos, p.home_dir, p.shell>>, ":")

\* ShadowEntry::from_line, the struct literal over the eight field results
ShadowFromFields(fs) ==
    IF ~AllOk(fs) THEN ParseErr(FirstErr(fs).err)
    ELSE ParseOk([name |-> fs[1].v, passwd |-> fs[2].v,
                  last_change_date |-> fs[3].v, min_password_age |-> fs[4].v,
                  max_password_age |-> fs[5].v, warn_period |-> fs[6].v,
                  inact_period |-> fs[7].v, expire_date |-> fs[8].v])

\* ShadowEntry::from_line, the fields taken from line.split(":")
ShadowFromParts(parts) ==
    ShadowFromFields(<<next_field(parts, 1), next_field(parts, 2),
                       next_field_u32_opt(parts, 3), next_field_u32_opt(parts, 4),
                       next_field_u32_opt(parts, 5), next_field_u32_opt(parts, 6),
                       next_field_u32_opt(parts, 7), next_field_u32_opt(parts, 8)>>)

\* ShadowEntry::from_line
ShadowFromLine(line) == ShadowFromParts(Split(line, ":"))

\* ShadowEntry::to_line
ShadowToLine(sp) ==
    Join(<<sp.name, sp.passwd,
           to_string_or_empty(sp.last_change_date),
           to_string_or_empty(sp.min_password_age),
           to_string_or_empty(sp.max_password_age),
           to_string_or_empty(sp.warn_period),
           to_string_or_empty(sp.inact_period),
           to_string_or_empty(sp.expire_date), <<>>>>, ":")

\* Entry::from_line of the schema a file holds
FromLine(schema, line) ==
    CASE schema = "group" -> GroupFromLine(line)
      [] schema = "passwd" -> PasswdFromLine(line)
      [] schema = "shadow" -> ShadowFromLine(line)

\* Entry::to_line of the schema a file holds
ToLine(schema, entry) ==
    CASE schema = "group" -> GroupToLine(entry)
      [] schema = "passwd" -> PasswdToLine(entry)
      [] schema = "shadow" -> ShadowToLine(entry)

\* BufRead::read_line, repeated: the lines of a file, each with its newline
RECURSIVE ReadLinesFrom(_, _)
ReadLinesFrom(bytes, cur) ==
    IF bytes = <<>> THEN (IF cur = <<>> THEN <<>> ELSE <<cur>>)
    ELSE IF Head(bytes) = "\n"
         THEN <<Append(cur, "\n")>> \o ReadLinesFrom(Tail(bytes), <<>>)
         ELSE ReadLinesFrom(Tail(bytes), Append(cur, Head(bytes)))

ReadLines(bytes) == ReadLinesFrom(bytes, <<>>)

\* EntFileReader::next on the lines that are left: the item yielded (none at
\* EOF) and the lines left after it
RECURSIVE ReaderNext_NoBlankSkip(_, _)
ReaderNext_NoBlankSkip(schema, lines) ==
    IF lines = <<>> THEN [item |-> None, rest |-> <<>>]
    ELSE IF \E i \in 1..Len(Head(lines)) : Head(lines)[i] = BadByte
         THEN [item |-> Some(ParseErr("Io")), rest |-> Tail(lines)]
         ELSE IF Head(lines)[1] = "#" THEN ReaderNext_NoBlankSkip(schema, Tail(lines))
         ELSE [item |-> Some(FromLine(schema, TrimEnd(Head(lines)))), rest |-> Tail(lines)]

RECURSIVE ReaderNext(_, _)
ReaderNext(schema, lines) ==
    IF lines = <<>> THEN [item |-> None, rest |-> <<>>]
    ELSE LET line == Head(lines)
         IN  IF \E i \in 1..Len(line) : line[i] = BadByte
             THEN [item |-> Some(ParseErr("Io")), rest |-> Tail(lines)]
             ELSE IF line[1] = "#" THEN ReaderNext(schema, Tail(lines))
             ELSE IF TrimEnd(line) = <<>> THEN ReaderNext(schema, Tail(lines))
             ELSE [item |-> Some(FromLine(schema, TrimEnd(line))), rest |-> Tail(lines)]

\* the whole sequence an EntFileReader yields
RECURSIVE ReaderItems(_, _)
ReaderCollect(schema, n) ==
    IF ~n.item.some THEN <<>> ELSE <<n.item.v>> \o ReaderItems(schema, n.rest)

ReaderItems(schema, lines) == ReaderCollect(schema, ReaderNext(schema, lines))

\* util::open_read_append: the options the account files are opened with
open_read_append == [read |-> TRUE, append |-> TRUE, create |-> TRUE]

\* a handle on a file: the options it was opened with and its position
Handle(opts, pos) == [opts |-> opts, pos |-> pos]

\* where a write through handle h puts its bytes: at the end of the file on
\* an append-mode handle, at the position of the handle otherwise
WriteOffset_Start(bytes, h) == 0

WriteOffset_AtHandle(bytes, h) == h.pos

WriteOffset(bytes, h) == IF h.opts.append THEN Len(bytes) ELSE h.pos

\* the file with data put at offset off, over the bytes that were there
PutAt(bytes, off, data) ==
    SubSeq(bytes, 1, off) \o data \o SubSeq(bytes, off + Len(data) + 1, Len(bytes))

\* File::write through handle h.  io is what the operating system does with
\* the request: it takes every byte, takes only the first n of them, or
\* fails without taking any.
FileWriteAt(bytes, h, data, io) ==
    CASE io.k = "ok" -> [ok |-> TRUE, written |-> Len(data),
                         bytes |-> PutAt(bytes, WriteOffset(bytes, h), data)]
      [] io.k = "short" -> [ok |-> TRUE, written |-> io.n,
                            bytes |-> PutAt(bytes, WriteOffset(bytes, h),
                                            SubSeq(data, 1, io.n))]
      [] io.k = "err" -> [ok |-> FALSE, written |-> 0, bytes |-> bytes]

\* File::write on the handle of an add_* call: opened by open_read_append
\* and read to the end of the file by the scan
FileWrite(bytes, data, io) ==
    FileWriteAt(bytes, Handle(open_read_append, Len(bytes)), data, io)

\* EntFileWriter::write, from the result w of File::write on
WriterWritten_AnyBytes(w, data) ==
    IF ~w.ok THEN [ok |-> FALSE, err |-> "Io", bytes |-> w.bytes]
    ELSE IF w.written = 0
         THEN [ok |-> FALSE, err |-> "Short write", bytes |-> w.bytes]
         ELSE [ok |-> TRUE, err |-> "", bytes |-> w.bytes]

WriterWritten(w, data) ==
    IF ~w.ok THEN [ok |-> FALSE, err |-> "Io", bytes |-> w.bytes]
    ELSE IF w.written # Len(data)
         THEN [ok |-> FALSE, err |-> "Short write", bytes |-> w.bytes]
         ELSE [ok |-> TRUE, err |-> "", bytes |-> w.bytes]

\* EntFileWriter::write through handle h
WriterWriteAt(bytes, h, line, io) ==
    WriterWritten(FileWriteAt(bytes, h, line \o <<"\n">>, io), line \o <<"\n">>)

\* EntFileWriter::write on the handle of an add_* call
WriterWrite(bytes, line, io) ==
    WriterWritten(FileWrite(bytes, line \o <<"\n">>, io), line \o <<"\n">>)

----------------------------------------------------------------------------
\* Identity provisioning: main.rs UserInfo.

USER_HOME == <<"/", "h", "o", "m", "e">>
INVALID_PASSWORD == <<"x">>
DEFAULT_SHELL_Sh == <<"/", "b", "i", "n", "/", "s", "h">>

DEFAULT_SHELL == <<"/", "b", "i", "n", "/", "b", "a", "s", "h">>
SCUBAINIT_EXIT_FAIL == 99

\* Path::join: an absolute right-hand side replaces the left-hand side
PathJoin(base, p) ==
    IF p # <<>> /\ Head(p) = "/" THEN p
    ELSE IF base # <<>> /\ base[Len(base)] = "/" THEN base \o p
    ELSE base \o <<"/">> \o p

\* UserInfo::home_dir
home_dir(ui) == PathJoin(USER_HOME, ui.user)

\* bitwise and of two file modes
RECURSIVE BitAnd(_, _)
BitAnd(a, b) ==
    IF a = 0 \/ b = 0 THEN 0
    ELSE 2 * BitAnd(a \div 2, b \div 2) + (IF a % 2 = 1 /\ b % 2 = 1 THEN 1 ELSE 0)

\* bitwise or of two file modes
BitOr(a, b) == a + b - BitAnd(a, b)

\* util::make_executable, the mode it computes: mode |= (mode & 0o444) >> 2
make_executable_mode_ShiftOne(mode) == BitOr(mode, BitAnd(mode, 292) \div 2)

make_executable_mode(mode) == BitOr(mode, BitAnd(mode, 292) \div 4)

\* util::make_executable on a file of the given mode.  io names the call the
\* operating system refuses, if any: fs::metadata or fs::set_permissions.
make_executable(mode, io) ==
    IF io = "ok" THEN [ok |-> TRUE, mode |-> make_executable_mode(mode)]
    ELSE [ok |-> FALSE, mode |-> mode]

ChmodIo == {"ok", "metadata", "set_permissions"}

\* UserInfo::make_homedir.  io names the call the operating system refuses,
\* if any; the calls before it keep their effect.
make_homedir(h, ui, p, io) ==
    LET created == IF h.exists THEN h
                   ELSE [exists |-> TRUE, mode |-> 511 - BitAnd(511, p.umask),
                         uid |-> p.uid, gid |-> p.gid]
        chmodded == [created EXCEPT !.mode = 448]
        chowned == [chmodded EXCEPT !.uid = ui.uid, !.gid = ui.gid]
    IN  CASE io = "create_dir_all" -> [ok |-> FALSE, dir |-> h]
          [] io = "set_permissions" -> [ok |-> FALSE, dir |-> created]
          [] io = "chown" -> [ok |-> FALSE, dir |-> chmodded]
          [] io = "ok" -> [ok |-> TRUE, dir |-> chowned]

\* what an add_* call returns, and the file as it leaves it
Done(bytes) == [ok |-> TRUE, err |-> "", bytes |-> bytes]
Failed(err, bytes) == [ok |-> FALSE, err |-> err, bytes |-> bytes]

\* the scan loop of add_group: what the first decisive item n of the reader
\* makes of the call ("append" when the reader ends without one)
RECURSIVE GroupScan(_, _, _)
GroupScanItem_NameOnly(n, group_name, gid) ==
    IF ~n.item.some THEN "append"
    ELSE IF ~n.item.v.ok THEN n.item.v.err
    ELSE IF n.item.v.v.name = group_name THEN "exists"
         ELSE GroupScan(n.rest, group_name, gid)

GroupScanItem_GidConflict(n, group_name, gid) ==
    IF ~n.item.some THEN "append"
    ELSE IF ~n.item.v.ok THEN n.item.v.err
    ELSE IF n.item.v.v.name = group_name
         THEN (IF n.item.v.v.gid = gid THEN "exists" ELSE "conflict")
         ELSE IF n.item.v.v.gid = gid THEN "conflict"
         ELSE GroupScan(n.rest, group_name, gid)

GroupScanItem(n, group_name, gid) ==
    IF ~n.item.some THEN "append"
    ELSE IF ~n.item.v.ok THEN n.item.v.err
    ELSE IF n.item.v.v.name = group_name
         THEN (IF n.item.v.v.gid = gid THEN "exists" ELSE "conflict")
         ELSE GroupScan(n.rest, group_name, gid)

GroupScan(lines, group_name, gid) ==
    GroupScanItem(ReaderNext("group", lines), group_name, gid)

\* add_group after the scan
add_group_scanned(bytes, ui, io, scan) ==
    CASE scan = "exists" -> Done(bytes)
      [] scan = "append" ->
           WriterWrite(bytes,
                       GroupToLine([name |-> ui.group, passwd |-> INVALID_PASSWORD,
                                    gid |-> ui.gid, members |-> <<>>]),
                       io)
      [] OTHER -> Failed(scan, bytes)

\* UserInfo::add_group.  io is what the operating system does: it refuses
\* the open, or treats the write as FileWrite says.
add_group(bytes, ui, io) ==
    IF io.k = "open_err" THEN Failed("Io", bytes)
    ELSE add_group_scanned(bytes, ui, io, GroupScan(ReadLines(bytes), ui.group, ui.gid))

\* the scan loop of add_user
RECURSIVE PasswdScan(_, _, _)
PasswdScanItem_IgnoresMatch(n, user_name, uid) ==
    IF ~n.item.some THEN "append"
    ELSE IF ~n.item.v.ok THEN n.item.v.err
    ELSE IF n.item.v.v.name = user_name /\ n.item.v.v.uid # uid THEN "conflict"
         ELSE PasswdScan(n.rest, user_name, uid)

\* a scan that reads the file to its end before it decides on a record of
\* the requested name
PasswdScanItem_WholeFile(n, user_name, uid) ==
    IF ~n.item.some THEN "append"
    ELSE IF ~n.item.v.ok THEN n.item.v.err
    ELSE IF n.item.v.v.name = user_name
         THEN (IF \E i \in 1..Len(ReaderItems("passwd", n.rest)) :
                     ~ReaderItems("passwd", n.rest)[i].ok
               THEN "Invalid"
               ELSE IF n.item.v.v.uid = uid THEN "exists" ELSE "conflict")
         ELSE PasswdScan(n.rest, user_name, uid)

PasswdScanItem(n, user_name, uid) ==
    IF ~n.item.some THEN "append"
    ELSE IF ~n.item.v.ok THEN n.item.v.err
    ELSE IF n.item.v.v.name = user_name
         THEN (IF n.item.v.v.uid = uid THEN "exists" ELSE "conflict")
         ELSE PasswdScan(n.rest, user_name, uid)

PasswdScan(lines, user_name, uid) ==
    PasswdScanItem(ReaderNext("passwd", lines), user_name, uid)

\* add_user after the scan
add_user_scanned(bytes, ui, io, scan) ==
    CASE scan = "exists" -> Done(bytes)
      [] scan = "append" ->
           WriterWrite(bytes,
                       PasswdToLine([name |-> ui.user, passwd |-> INVALID_PASSWORD,
                                     uid |-> ui.uid, gid |-> ui.gid, gecos |-> ui.user,
                                     home_dir |-> home_dir(ui),
                                     shell |-> DEFAULT_SHELL]),
                       io)
      [] OTHER -> Failed(scan, bytes)

\* UserInfo::add_user
add_user(bytes, ui, io) ==
    IF io.k = "open_err" THEN Failed("Io", bytes)
    ELSE add_user_scanned(bytes, ui, io, PasswdScan(ReadLines(bytes), ui.user, ui.uid))

\* the scan loop of add_shadow
RECURSIVE ShadowScan(_, _)
ShadowScanItem_LockedOnly(n, user_name) ==
    IF ~n.item.some THEN "append"
    ELSE IF ~n.item.v.ok THEN n.item.v.err
    ELSE IF n.item.v.v.name = user_name /\ n.item.v.v.passwd = INVALID_PASSWORD
         THEN "exists"
         ELSE ShadowScan(n.rest, user_name)

ShadowScanItem(n, user_name) ==
    IF ~n.item.some THEN "append"
    ELSE IF ~n.item.v.ok THEN n.item.v.err
    ELSE IF n.item.v.v.name = user_name THEN "exists"
         ELSE ShadowScan(n.rest, user_name)

ShadowScan(lines, user_name) ==
    ShadowScanItem(ReaderNext("shadow", lines), user_name)

\* add_shadow after the scan
add_shadow_scanned(bytes, ui, io, scan) ==
    CASE scan = "exists" -> Done(bytes)
      [] scan = "append" ->
           WriterWrite(bytes,
                       ShadowToLine([name |-> ui.user, passwd |-> INVALID_PASSWORD,
                                     last_change_date |-> None,
                                     min_password_age |-> None,
                                     max_password_age |-> None,
                                     warn_period |-> None, inact_period |-> None,
                                     expire_date |-> None]),
                       io)
      [] OTHER -> Failed(scan, bytes)

\* UserInfo::add_shadow
add_shadow(bytes, ui, io) ==
    IF io.k = "open_err" THEN Failed("Io", bytes)
    ELSE add_shadow_scanned(bytes, ui, io, ShadowScan(ReadLines(bytes), ui.user))

----------------------------------------------------------------------------
\* Hooks and the privilege drop: main.rs Context, UserInfo::change_user.

\* util::libc_result: -1 is the error return, anything else is Ok
libc_result_ZeroOrLess(rc) == rc <= 0

libc_result(rc) == rc # -1

\* UserInfo::change_user: the privilege syscalls, in the order it issues them
DropOrder_UidBeforeGid == <<"setgroups", "setuid", "setgid">>

DropOrder == <<"setgroups", "setgid", "setuid">>

\* change_user: what follows a syscall that succeeded
AfterDropStep_SkipSetuid(step) == IF step = "setgroups" THEN "setgid" ELSE "set_env"

AfterDropStep(step) ==
    LET i == CHOOSE k \in 1..Len(DropOrder) : DropOrder[k] = step
    IN  IF i < Len(DropOrder) THEN DropOrder[i + 1] ELSE "set_env"

\* Context::call_hook.  outcome is what happens to a configured hook:
\* make_executable fails, the child cannot be started, or it ends with exit
\* code 0, with another exit code, or by a signal.  The operations issued
\* are returned in order, each with whether it succeeded.
call_hook_CodeOnly(path_str, outcome) ==
    IF ~path_str.some THEN [ok |-> TRUE, issued |-> <<>>]
    ELSE IF outcome = "chmod_err"
         THEN [ok |-> FALSE, issued |-> <<[op |-> "make_executable", ok |-> FALSE]>>]
         ELSE [ok |-> outcome \in {"exit0", "signal"},
               issued |-> <<[op |-> "make_executable", ok |-> TRUE],
                            [op |-> "run", ok |-> outcome = "exit0"]>>]

call_hook(path_str, outcome) ==
    IF ~path_str.some THEN [ok |-> TRUE, issued |-> <<>>]
    ELSE IF outcome = "chmod_err"
         THEN [ok |-> FALSE, issued |-> <<[op |-> "make_executable", ok |-> FALSE]>>]
         ELSE [ok |-> outcome = "exit0",
               issued |-> <<[op |-> "make_executable", ok |-> TRUE],
                            [op |-> "run", ok |-> outcome = "exit0"]>>]

HookOutcomes == {"chmod_err", "spawn_err", "exit0", "exit_nonzero", "signal"}

\* what the operating system may do with an open-scan-append of an account file
ShortWriteLens == {0, 1}
FileIo ==
    {[k |-> "ok", n |-> 0], [k |-> "open_err", n |-> 0], [k |-> "err", n |-> 0]}
    \cup {[k |-> "short", n |-> n] : n \in ShortWriteLens}

HomedirIo == {"ok", "create_dir_all", "set_permissions", "chown"}

\* USER, LOGNAME and HOME as the process (and a child it starts) sees them
IdVars(e) == [USER |-> e["USER"], LOGNAME |-> e["LOGNAME"], HOME |-> e["HOME"]]

\* one entry of the trace
Ev(op, ok) == [op |-> op, ok |-> ok, proc |-> proc, id |-> IdVars(env)]

\* run_scubainit returns Err(...) to main
Fail ==
    /\ result' = "Err"
    /\ pc' = "main"

\* the ? operator on a step of run_scubainit: go on to next, or return the error
Try_Unchecked(ok, next) == pc' = next /\ UNCHANGED result

Try(ok, next) == IF ok THEN pc' = next /\ UNCHANGED result ELSE Fail

----------------------------------------------------------------------------
\* The initial states: the environment scuba hands over, the account files
\* of the image and the identity the container starts under.

RootName == <<"r", "o", "o", "t">>
RootHome == <<"/", "r", "o", "o", "t">>

\* values each configuration variable is tried with
EnvChoices(name) ==
    CASE name = "SCUBAINIT_UID" -> {Unset, Text(<<"7">>), Text(<<"x">>), NotUnicode}
      [] name = "SCUBAINIT_GID" -> {Unset, Text(<<"8">>), Text(<<"-", "1">>)}
      [] name = "SCUBAINIT_USER" -> {Unset, Text(<<"u">>), Text(<<"/", "u">>), NotUnicode}
      [] name = "SCUBAINIT_GROUP" -> {Unset, Text(<<"g">>), NotUnicode}
      [] name = "SCUBAINIT_UMASK" -> {Unset, Text(<<"6", "3">>), Text(<<"0", "o">>)}
      [] name = "SCUBAINIT_HOOK_USER" -> {Unset, Text(<<"/", "h", "u">>)}
      [] name = "SCUBAINIT_HOOK_ROOT" -> {Unset, Text(<<"/", "h", "r">>)}
      [] name = "SCUBAINIT_VERBOSE" -> {Text(<<"1">>)}
      [] name \in {"PWD", "OLDPWD"} -> {Text(<<"/">>)}
      [] name = "XAUTHORITY" -> {Text(<<"/", "x">>)}
      [] name \in {"USER", "LOGNAME"} -> {Text(RootName)}
      [] name = "HOME" -> {Text(RootHome)}

Envs ==
    [SCUBAINIT_UID : EnvChoices("SCUBAINIT_UID"),
     SCUBAINIT_GID : EnvChoices("SCUBAINIT_GID"),
     SCUBAINIT_UMASK : EnvChoices("SCUBAINIT_UMASK"),
     SCUBAINIT_USER : EnvChoices("SCUBAINIT_USER"),
     SCUBAINIT_GROUP : EnvChoices("SCUBAINIT_GROUP"),
     SCUBAINIT_HOOK_USER : EnvChoices("SCUBAINIT_HOOK_USER"),
     SCUBAINIT_HOOK_ROOT : EnvChoices("SCUBAINIT_HOOK_ROOT"),
     SCUBAINIT_VERBOSE : EnvChoices("SCUBAINIT_VERBOSE"),
     PWD : EnvChoices("PWD"),
     OLDPWD : EnvChoices("OLDPWD"),
     XAUTHORITY : EnvChoices("XAUTHORITY"),
     USER : EnvChoices("USER"),
     LOGNAME : EnvChoices("LOGNAME"),
     HOME : EnvChoices("HOME")]

\* the environments under which the invocation gets to the account files
Provisions(e) == process_envvars(e).ok /\ process_envvars(e).v.user_info.some

\* lines an image's account files may hold, chosen around the identity
\* (u, 7, g, 8) the environment asks for: the record asked for, a record
\* of that name that differs or is malformed, and a record of another name
GroupLines ==
    {<<"g", ":", "x", ":", "8", ":">>,
     <<"g", ":", "x", ":", "9", ":", "u">>,
     <<"a", ":", "x", ":", "1", ":">>}
PasswdLines ==
    {<<"u", ":", "x", ":", "7", ":", "8", ":", "u", ":", "/", ":", "/">>,
     <<"u", ":", "x", ":", "9", ":", "9", ":", ":", "/", ":">>,
     <<"a", ":", "x", ":", "1", ":", "1", ":", ":", "/", ":">>}
ShadowLines ==
    {<<"u", ":", "!", ":", "1", ":", ":", ":", ":", ":", ":">>,
     <<"u", ":", "x">>,
     <<"a", ":", "*", ":", ":", ":", ":", ":", ":", ":">>}

\* the files of at most n lines, each line ended by a newline
RECURSIVE FilesOf(_, _)
FilesOf(lines, n) ==
    IF n = 0 THEN {<<>>}
    ELSE LET shorter == FilesOf(lines, n - 1)
         IN  shorter \cup {f \o l \o <<"\n">> : f \in shorter, l \in lines}

NoHomedir == [exists |-> FALSE, mode |-> 0, uid |-> 0, gid |-> 0]
RootHomedir == [exists |-> TRUE, mode |-> 493, uid |-> 0, gid |-> 0]

OrigProc == [uid |-> 0, gid |-> 0, groups |-> {0, 4}, umask |-> 18]

Command == <<"s", "h">>

Init ==
    /\ pc = "setup_logging"
    /\ env \in Envs
    /\ argv \in {<<>>, <<Command>>}
    /\ ctx = NoContext
    /\ \/ /\ Provisions(env)
          /\ files \in [group : FilesOf(GroupLines, MaxFileLines),
                        passwd : FilesOf(PasswdLines, MaxFileLines),
                        shadow : FilesOf(ShadowLines, MaxFileLines)]
          /\ homedir \in {NoHomedir, RootHomedir}
       \/ /\ ~Provisions(env)
          /\ files \in [group : FilesOf(GroupLines, 1), passwd : {<<>>}, shadow : {<<>>}]
          /\ homedir = NoHomedir
    /\ proc = OrigProc
    /\ result = "none"
    /\ exit = [k |-> "running", code |-> 0]
    /\ orig = [env |-> env, files |-> files, homedir |-> homedir]
    /\ trace = <<>>
    /\ arg = <<>>
    /\ ret = <<>>

----------------------------------------------------------------------------
\* The steps of one invocation: main.rs run_scubainit and main.

\* setup_logging: pops SCUBAINIT_VERBOSE
SetupLogging ==
    /\ pc = "setup_logging"
    /\ env' = pop_env_bool(env, "SCUBAINIT_VERBOSE").env
    /\ pc' = "process_envvars"
    /\ UNCHANGED <<argv, ctx, files, homedir, proc, result, exit, trace, orig, arg, ret>>

\* where control goes after process_envvars: "if let Some(ref user_info)"
\* the command looked for before anything is done
AfterEnvvars_CommandFirst(c) ==
    IF argv = <<>> THEN "exec"
    ELSE IF c.user_info.some THEN "make_homedir" ELSE "call_root_hook"

AfterEnvvars(c) == IF c.user_info.some THEN "make_homedir" ELSE "call_root_hook"

\* let ctx = process_envvars()?
ProcessEnvvars ==
    /\ pc = "process_envvars"
    /\ LET r == process_envvars(env)
       IN  /\ env' = r.env
           /\ ctx' = r.v
           /\ trace' = Append(trace, Ev("process_envvars", r.ok))
           /\ Try(r.ok, AfterEnvvars(r.v))
    /\ UNCHANGED <<argv, files, homedir, proc, exit, orig, arg, ret>>

\* user_info.make_homedir()?
MakeHomedir ==
    /\ pc = "make_homedir"
    /\ \E io \in HomedirIo :
         LET r == make_homedir(homedir, ctx.user_info.v, proc, io)
         IN  /\ homedir' = r.dir
             /\ trace' = Append(trace, Ev("make_homedir", r.ok))
             /\ Try(r.ok, "add_group")
    /\ UNCHANGED <<env, argv, ctx, files, proc, exit, orig, arg, ret>>

\* user_info.add_group()?
AddGroup ==
    /\ pc = "add_group"
    /\ \E io \in FileIo :
         LET r == add_group(files.group, ctx.user_info.v, io)
         IN  /\ files' = [files EXCEPT !.group = r.bytes]
             /\ trace' = Append(trace, Ev("add_group", r.ok))
             /\ Try(r.ok, "add_user")
    /\ UNCHANGED <<env, argv, ctx, homedir, proc, exit, orig, arg, ret>>

\* add_user with a rollback: a failure restores the account files and the
\* home directory the invocation found
AddUser_RollsBack ==
    /\ pc = "add_user"
    /\ \E io \in FileIo :
         LET r == add_user(files.passwd, ctx.user_info.v, io)
         IN  /\ files' = IF r.ok THEN [files EXCEPT !.passwd = r.bytes] ELSE orig.files
             /\ homedir' = IF r.ok THEN homedir ELSE orig.homedir
             /\ trace' = Append(trace, Ev("add_user", r.ok))
             /\ Try(r.ok, "add_shadow")
    /\ UNCHANGED <<env, argv, ctx, proc, exit, orig, arg, ret>>

\* user_info.add_user()?
AddUser ==
    /\ pc = "add_user"
    /\ \E io \in FileIo :
         LET r == add_user(files.passwd, ctx.user_info.v, io)
         IN  /\ files' = [files EXCEPT !.passwd = r.bytes]
             /\ trace' = Append(trace, Ev("add_user", r.ok))
             /\ Try(r.ok, "add_shadow")
    /\ UNCHANGED <<env, argv, ctx, homedir, proc, exit, orig, arg, ret>>

\* user_info.add_shadow()?
AddShadow ==
    /\ pc = "add_shadow"
    /\ \E io \in FileIo :
         LET r == add_shadow(files.shadow, ctx.user_info.v, io)
         IN  /\ files' = [files EXCEPT !.shadow = r.bytes]
             /\ trace' = Append(trace, Ev("add_shadow", r.ok))
             /\ Try(r.ok, "call_root_hook")
    /\ UNCHANGED <<env, argv, ctx, homedir, proc, exit, orig, arg, ret>>

\* the trace entries of a hook's operations
HookEvents(which, issued) ==
    [i \in 1..Len(issued) |-> Ev(which \o "." \o issued[i].op, issued[i].ok)]

\* where control goes after the root hook: the "if let Some(user_info)" of
\* run_scubainit before change_user
AfterRootHook_NoDrop(c) == "set_umask"

AfterRootHook_AlwaysDrop(c) == DropOrder[1]

AfterRootHook_UmaskWithUserOnly(c) == IF c.user_info.some THEN DropOrder[1] ELSE "exec"

AfterRootHook(c) == IF c.user_info.some THEN DropOrder[1] ELSE "set_umask"

\* ctx.call_root_hook()?
CallRootHook ==
    /\ pc = "call_root_hook"
    /\ \E outcome \in HookOutcomes :
         LET r == call_hook(ctx.root_hook, outcome)
         IN  /\ trace' = trace \o HookEvents("root_hook", r.issued)
             /\ Try(r.ok, AfterRootHook(ctx))
    /\ UNCHANGED <<env, argv, ctx, files, homedir, proc, exit, orig, arg, ret>>

\* change_user: libc_result(libc::setgroups(0, NULL))?
Setgroups ==
    /\ pc = "setgroups"
    /\ \E rc \in {0, -1} :
         /\ trace' = Append(trace, Ev("setgroups", rc = 0))
         /\ proc' = IF rc = 0 THEN [proc EXCEPT !.groups = {}] ELSE proc
         /\ Try(libc_result(rc), AfterDropStep("setgroups"))
    /\ UNCHANGED <<env, argv, ctx, files, homedir, exit, orig, arg, ret>>

\* change_user: libc_result(libc::setgid(gid))?
Setgid ==
    /\ pc = "setgid"
    /\ \E rc \in {0, -1} :
         /\ trace' = Append(trace, Ev("setgid", rc = 0))
         /\ proc' = IF rc = 0 THEN [proc EXCEPT !.gid = ctx.user_info.v.gid] ELSE proc
         /\ Try(libc_result(rc), AfterDropStep("setgid"))
    /\ UNCHANGED <<env, argv, ctx, files, homedir, exit, orig, arg, ret>>

\* change_user: libc_result(libc::setuid(uid))?
Setuid ==
    /\ pc = "setuid"
    /\ \E rc \in {0, -1} :
         /\ trace' = Append(trace, Ev("setuid", rc = 0))
         /\ proc' = IF rc = 0 THEN [proc EXCEPT !.uid = ctx.user_info.v.uid] ELSE proc
         /\ Try(libc_result(rc), AfterDropStep("setuid"))
    /\ UNCHANGED <<env, argv, ctx, files, homedir, exit, orig, arg, ret>>

\* change_user: env::set_var of USER, LOGNAME and HOME, then Ok(())
SetEnv ==
    /\ pc = "set_env"
    /\ env' = [env EXCEPT !["USER"] = Text(ctx.user_info.v.user),
                          !["LOGNAME"] = Text(ctx.user_info.v.user),
                          !["HOME"] = Text(home_dir(ctx.user_info.v))]
    /\ trace' = Append(trace, Ev("set_env", TRUE))
    /\ pc' = "set_umask"
    /\ UNCHANGED <<argv, ctx, files, homedir, proc, result, exit, orig, arg, ret>>

\* where control goes after set_umask: "if ctx.user_info.is_some()"
AfterUmask_AlwaysHook(c) == "call_user_hook"

AfterUmask(c) == IF c.user_info.some THEN "call_user_hook" ELSE "exec"

\* ctx.set_umask()
SetUmask ==
    /\ pc = "set_umask"
    /\ IF ctx.umask.some
       THEN /\ proc' = [proc EXCEPT !.umask = BitAnd(ctx.umask.v, 511)]
            /\ trace' = Append(trace, Ev("umask", TRUE))
       ELSE UNCHANGED <<proc, trace>>
    /\ pc' = AfterUmask(ctx)
    /\ UNCHANGED <<env, argv, ctx, files, homedir, result, exit, orig, arg, ret>>

\* ctx.call_user_hook()?
CallUserHook ==
    /\ pc = "call_user_hook"
    /\ \E outcome \in HookOutcomes :
         LET r == call_hook(ctx.user_hook, outcome)
         IN  /\ trace' = trace \o HookEvents("user_hook", r.issued)
             /\ Try(r.ok, "exec")
    /\ UNCHANGED <<env, argv, ctx, files, homedir, proc, exit, orig, arg, ret>>

\* the end of run_scubainit: bail!("Missing command") on an empty argument
\* vector, else Err(execvp(program, argv)): execvp returns only when it
\* failed, and replaced says whether the image was replaced instead
exec_tail_OkWhenEmpty(args, replaced) ==
    IF args = <<>> THEN "Ok"
    ELSE IF replaced THEN "replaced"
    ELSE "Err"

exec_tail(args, replaced) ==
    IF args = <<>> THEN "Err"
    ELSE IF replaced THEN "replaced"
    ELSE "Err"

Exec ==
    /\ pc = "exec"
    /\ \E replaced \in BOOLEAN :
         /\ trace' = IF argv = <<>> THEN trace
                     ELSE Append(trace, Ev("execvp", replaced))
         /\ IF exec_tail(argv, replaced) = "replaced"
            THEN /\ pc' = "replaced"
                 /\ exit' = [k |-> "replaced", code |-> 0]
                 /\ UNCHANGED result
            ELSE /\ result' = exec_tail(argv, replaced)
                 /\ pc' = "main"
                 /\ UNCHANGED exit
    /\ UNCHANGED <<env, argv, ctx, files, homedir, proc, orig, arg, ret>>

\* main: the exit code for what run_scubainit returned
ExitCodeOf(r) == IF r = "Err" THEN SCUBAINIT_EXIT_FAIL ELSE 0

Main ==
    /\ pc = "main"
    /\ exit' = [k |-> "exited", code |-> ExitCodeOf(result)]
    /\ pc' = "exited"
    /\ UNCHANGED <<env, argv, ctx, files, homedir, proc, result, trace, orig, arg, ret>>

Next ==
    \/ SetupLogging
    \/ ProcessEnvvars
    \/ MakeHomedir
    \/ AddGroup
    \/ AddUser
    \/ AddShadow
    \/ CallRootHook
    \/ Setgroups
    \/ Setgid
    \/ Setuid
    \/ SetEnv
    \/ SetUmask
    \/ CallUserHook
    \/ Exec
    \/ Main

Spec == Init /\ [][Next]_vars

----------------------------------------------------------------------------
\* The provisioning steps called directly, several times in succession, on
\* account files of every shape: with records that match the requested
\* name or id, comments, blank and malformed lines, and with or without a
\* newline at the end of the last line.  A step is called again only after
\* a call the operating system carried out in full.

invocation == <<pc, env, argv, ctx, files, homedir, proc, result, exit, orig, trace>>

AccountFileNames == {"group", "passwd", "shadow"}

\* the variables of the invocation, parked while operations are called directly
Parked ==
    /\ pc = "parked"
    /\ env = <<>>
    /\ argv = <<>>
    /\ ctx = NoContext
    /\ files = [group |-> <<>>, passwd |-> <<>>, shadow |-> <<>>]
    /\ homedir = NoHomedir
    /\ proc = OrigProc
    /\ result = "none"
    /\ exit = [k |-> "running", code |-> 0]
    /\ orig = <<>>
    /\ trace = <<>>

\* the identities the steps are called for
CallIdentities ==
    {[uid |-> 7, gid |-> 8, user |-> <<"u">>, group |-> <<"g">>],
     [uid |-> 7, gid |-> 8, user |-> <<"/", "u">>, group |-> <<"#", "g">>]}

CallGroupLines ==
    {<<"g", ":", "x", ":", "8", ":">>,
     <<"g", ":", "x", ":", "9", ":", "u">>,
     <<"a", ":", "x", ":", "8", ":">>,
     <<"#", "g">>,
     <<>>,
     <<"a", ":", "x">>}
CallPasswdLines ==
    {<<"u", ":", "x", ":", "7", ":", "8", ":", "u", ":", "/", ":", "/">>,
     <<"u", ":", "x", ":", "9", ":", "9", ":", ":", "/", ":">>,
     <<"a", ":", "x", ":", "7", ":", "1", ":", ":", "/", ":">>,
     <<"#", "u">>,
     <<>>,
     <<"a", ":", "x">>}
CallShadowLines ==
    {<<"u", ":", "!", ":", "1", ":", ":", ":", ":", ":", ":">>,
     <<"u", ":", "x">>,
     <<"u", ":", "x", ":", "z", ":", ":", ":", ":", ":", ":">>,
     <<"a", ":", "*", ":", ":", ":", ":", ":", ":", ":">>,
     <<"#", "u">>,
     <<>>}

\* a file whose last line lost its newline
Unterminated(f) ==
    IF f # <<>> /\ f[Len(f)] = "\n" THEN SubSeq(f, 1, Len(f) - 1) ELSE f

\* the files of at most n lines, the last line with or without its newline
CallFiles(lines, n) == FilesOf(lines, n) \cup {Unterminated(f) : f \in FilesOf(lines, n)}

ProvInit ==
    /\ Parked
    /\ arg \in [op : {"add_group"}, ui : CallIdentities,
                bytes : CallFiles(CallGroupLines, MaxCallLines)]
           \cup [op : {"add_user"}, ui : CallIdentities,
                  bytes : CallFiles(CallPasswdLines, MaxCallLines)]
           \cup [op : {"add_shadow"}, ui : CallIdentities,
                  bytes : CallFiles(CallShadowLines, MaxCallLines)]
    /\ ret = <<>>

\* the file as the next call finds it
CallBefore == IF ret = <<>> THEN arg.bytes ELSE ret[Len(ret)].after

\* the schema of the file the step called works on
CallSchema ==
    CASE arg.op = "add_group" -> "group"
      [] arg.op = "add_user" -> "passwd"
      [] arg.op = "add_shadow" -> "shadow"

\* the record kept of one call: what it returned, what it did to the file,
\* and the items a reader yields on the file as the call found it
Called(r, io) ==
    [ok |-> r.ok, err |-> r.err, before |-> CallBefore, after |-> r.bytes, io |-> io,
     items |-> ReaderItems(CallSchema, ReadLines(CallBefore))]

\* a further call is made
CallAgain ==
    IF ret = <<>> THEN TRUE
    ELSE Len(ret) < MaxCalls /\ ret[Len(ret)].io.k = "ok"

CallAddGroup ==
    /\ arg.op = "add_group"
    /\ CallAgain
    /\ \E io \in FileIo :
         ret' = Append(ret, Called(add_group(CallBefore, arg.ui, io), io))
    /\ UNCHANGED <<invocation, arg>>

CallAddUser ==
    /\ arg.op = "add_user"
    /\ CallAgain
    /\ \E io \in FileIo :
         ret' = Append(ret, Called(add_user(CallBefore, arg.ui, io), io))
    /\ UNCHANGED <<invocation, arg>>

CallAddShadow ==
    /\ arg.op = "add_shadow"
    /\ CallAgain
    /\ \E io \in FileIo :
         ret' = Append(ret, Called(add_shadow(CallBefore, arg.ui, io), io))
    /\ UNCHANGED <<invocation, arg>>

ProvNext ==
    \/ CallAddGroup
    \/ CallAddUser
    \/ CallAddShadow

ProvSpec == ProvInit /\ [][ProvNext]_vars

----------------------------------------------------------------------------
\* The record schemas, the reader and the writer called directly: a record
\* serialized and parsed back, a record written to an empty file and read
\* back, a file read from start to end, and a file read for some records
\* and then appended to through the same handle.

\* n calls of EntFileReader::next: the items yielded and the lines left
RECURSIVE ReaderTake(_, _, _)
ReaderTaken(schema, nx, n) ==
    IF ~nx.item.some THEN [items |-> <<>>, rest |-> <<>>]
    ELSE [items |-> <<nx.item.v>> \o ReaderTake(schema, nx.rest, n - 1).items,
          rest |-> ReaderTake(schema, nx.rest, n - 1).rest]

ReaderTake(schema, lines, n) ==
    IF n = 0 THEN [items |-> <<>>, rest |-> lines]
    ELSE ReaderTaken(schema, ReaderNext(schema, lines), n)

\* how many bytes a sequence of lines holds
RECURSIVE ByteCount(_)
ByteCount(lines) == IF lines = <<>> THEN 0 ELSE Len(Head(lines)) + ByteCount(Tail(lines))

\* EntFileReader::into_inner: the position of the handle after n reads that
\* left the lines rest.  The BufReader has fetched at least the lines it
\* handed out and at most the whole file; both ends are tried.
HandlePositions(bytes, rest, n) ==
    IF n = 0 THEN {0} ELSE {Len(bytes) - ByteCount(rest), Len(bytes)}

GroupRecords ==
    [name : {<<"g">>, <<"#", "g">>, <<"a", ":", "b">>},
     passwd : {<<"x">>},
     gid : {0, 8, 10},
     members : {<<>>, <<<<"u">>>>, <<<<"u">>, <<"v">>>>, << <<>> >>,
                <<<<"u", ",", "v">>>>, <<<<"u", " ">>>>, <<<<"u", "\n">>>>}]

PasswdRecords ==
    [name : {<<"u">>, <<>>},
     passwd : {<<"x">>},
     uid : {0, 7},
     gid : {8},
     gecos : {<<>>, <<"a", " ", "b">>, <<"a", ":", "b">>},
     home_dir : {<<"/">>},
     shell : {<<>>, <<"/", "s">>, <<"s", " ">>, <<"s", "\n">>}]

ShadowRecords ==
    [name : {<<"u">>, <<"#">>},
     passwd : {<<"!">>, <<"x", ":">>},
     last_change_date : {None, Some(0), Some(12)},
     min_password_age : {None},
     max_password_age : {None, Some(9)},
     warn_period : {None},
     inact_period : {None},
     expire_date : {None, Some(7)}]

RecordsOf(schema) ==
    CASE schema = "group" -> GroupRecords
      [] schema = "passwd" -> PasswdRecords
      [] schema = "shadow" -> ShadowRecords

\* the entry appended after reading: the sample entry of the tests
SampleEntry(schema) ==
    CASE schema = "group" ->
           [name |-> <<"s">>, passwd |-> <<"x">>, gid |-> 3456,
            members |-> <<<<"c">>, <<"p">>>>]
      [] schema = "passwd" ->
           [name |-> <<"s">>, passwd |-> <<"x">>, uid |-> 1003, gid |-> 1003,
            gecos |-> <<"S", " ", "H">>, home_dir |-> <<"/", "s">>,
            shell |-> <<"/", "f">>]
      [] schema = "shadow" ->
           [name |-> <<"s">>, passwd |-> <<"*">>, last_change_date |-> Some(18881),
            min_password_age |-> Some(0), max_password_age |-> Some(99999),
            warn_period |-> Some(7), inact_period |-> None, expire_date |-> None]

\* lines of any account file: comments, blank and whitespace-only lines, a
\* '#' that is not the first character, lines that are not valid UTF-8
SkipLines ==
    {<<"#", "c">>, <<>>, <<" ">>, <<" ", "#", "c">>, <<"#", BadByte>>, <<BadByte>>}

LinesOf(schema) ==
    CASE schema = "group" -> CallGroupLines \cup {<<"g", ":", "x", ":", "8", ":", "u", " ">>}
      [] schema = "passwd" -> CallPasswdLines
      [] schema = "shadow" -> CallShadowLines

Schemas == {"group", "passwd", "shadow"}

FileInit ==
    /\ Parked
    /\ \E schema \in Schemas :
         arg \in [op : {"to_line", "write_read"}, schema : {schema},
                  entry : RecordsOf(schema)]
             \cup [op : {"read"}, schema : {schema},
                    bytes : CallFiles(LinesOf(schema) \cup SkipLines, MaxCallLines)]
             \cup [op : {"read_write"}, schema : {schema},
                    bytes : CallFiles(LinesOf(schema), MaxCallLines),
                    reads : 0..MaxCallLines,
                    entry : {SampleEntry(schema)}]
    /\ ret = <<>>

\* entry.to_line(), then from_line on the line
CallToLine ==
    /\ arg.op = "to_line"
    /\ ret = <<>>
    /\ ret' = [line |-> ToLine(arg.schema, arg.entry),
               back |-> FromLine(arg.schema, ToLine(arg.schema, arg.entry))]
    /\ UNCHANGED <<invocation, arg>>

\* what a reader yields on the file a write left
WrittenRead(w, io) ==
    [ok |-> w.ok, err |-> w.err, io |-> io, before |-> <<>>, after |-> w.bytes,
     items |-> ReaderItems(arg.schema, ReadLines(w.bytes))]

\* writer.write(entry) on a new file, rewind, then the reader to its end
CallWriteRead ==
    /\ arg.op = "write_read"
    /\ ret = <<>>
    /\ \E io \in FileIo \ {[k |-> "open_err", n |-> 0]} :
         ret' = WrittenRead(WriterWriteAt(<<>>, Handle(open_read_append, 0),
                                          ToLine(arg.schema, arg.entry), io), io)
    /\ UNCHANGED <<invocation, arg>>

\* the reader from the start of a file to its end
CallRead ==
    /\ arg.op = "read"
    /\ ret = <<>>
    /\ ret' = [items |-> ReaderItems(arg.schema, ReadLines(arg.bytes))]
    /\ UNCHANGED <<invocation, arg>>

\* the record kept of a read-then-write: the items read, where the handle
\* stood, and what the write returned and did to the file
ReadWritten(taken, pos, w, io) ==
    [items |-> taken.items, pos |-> pos, ok |-> w.ok, err |-> w.err, io |-> io,
     before |-> arg.bytes, after |-> w.bytes]

\* open_read_append, reads records through a reader, then into_inner and
\* writer.write(entry) on the same handle
CallReadWrite ==
    /\ arg.op = "read_write"
    /\ ret = <<>>
    /\ \E io \in FileIo \ {[k |-> "open_err", n |-> 0]} :
         \E pos \in HandlePositions(arg.bytes,
                        ReaderTake(arg.schema, ReadLines(arg.bytes), arg.reads).rest,
                        arg.reads) :
           ret' = ReadWritten(ReaderTake(arg.schema, ReadLines(arg.bytes), arg.reads),
                              pos,
                              WriterWriteAt(arg.bytes, Handle(open_read_append, pos),
                                            ToLine(arg.schema, arg.entry), io),
                              io)
    /\ UNCHANGED <<invocation, arg>>

FileNext ==
    \/ CallToLine
    \/ CallWriteRead
    \/ CallRead
    \/ CallReadWrite

FileSpec == FileInit /\ [][FileNext]_vars

----------------------------------------------------------------------------
\* The line parsers and the helpers of util.rs called directly.

\* the fields of a sample line of each schema, with more fields than the
\* schema takes
BaseFields(schema) ==
    CASE schema = "group" -> <<<<"g">>, <<"x">>, <<"8">>, <<"u", ",", "v">>, <<"e">>>>
      [] schema = "passwd" -> <<<<"u">>, <<"x">>, <<"7">>, <<"8">>, <<"c">>, <<"/">>,
                                <<"/", "s">>, <<"e">>>>
      [] schema = "shadow" -> <<<<"u">>, <<"!">>, <<"1">>, <<>>, <<"9">>, <<>>, <<>>,
                                <<"7">>, <<>>, <<"e">>>>

\* what a field of a sample line is replaced with
FieldValues ==
    {<<>>, <<"z">>, <<"+", "7">>, <<"-", "1">>, <<"1", "2">>, <<"#">>,
     <<"4", "2", "9", "4", "9", "6", "7", "2", "9", "6">>}

\* the field lists got from fields by replacing at most k of them
RECURSIVE Edited(_, _)
Edited(fields, k) ==
    IF k = 0 THEN {fields}
    ELSE Edited(fields, k - 1)
         \cup {[f EXCEPT ![i] = v] : f \in Edited(fields, k - 1),
                                      i \in 1..Len(fields), v \in FieldValues}

\* the lines tried on from_line: the first n fields of an edited sample
FieldLines(schema) ==
    {Join(SubSeq(f, 1, n), ":") : f \in Edited(BaseFields(schema), MaxEdits),
                                 n \in 0..Len(BaseFields(schema))}

\* the texts over 'a' and ',' of at most n characters
RECURSIVE CsvTexts(_)
CsvTexts(n) ==
    IF n = 0 THEN {<<>>}
    ELSE CsvTexts(n - 1)
         \cup {Append(t, c) : t \in CsvTexts(n - 1), c \in {"a", ","}}

\* the texts tried on maybe_parse and the values tried on to_string_or_empty
NumberTexts ==
    {<<>>, <<"0">>, <<"7">>, <<"0", "7">>, <<"+", "7">>, <<"1", "2">>, <<"z">>,
     <<"-", "1">>, <<"+">>, <<"7", "z">>, <<" ">>, <<"9", "9", "9", "9", "x">>}
OptionValues == {None, Some(0), Some(7), Some(10), Some(12), Some(18881), Some(99999)}

\* the texts tried on next_field_u32 and next_field_u32_opt: around zero,
\* around 2^31 and around u32::MAX = 4294967295
U32Texts ==
    {<<>>, <<"0">>, <<"7">>, <<"+", "7">>, <<"-", "1">>, <<"-", "0">>, <<"z">>,
     <<"0", "0", "7">>,
     <<"2", "1", "4", "7", "4", "8", "3", "6", "4", "7">>,
     <<"2", "1", "4", "7", "4", "8", "3", "6", "4", "8">>,
     <<"4", "2", "9", "4", "9", "6", "7", "2", "9", "5">>,
     <<"+", "0", "4", "2", "9", "4", "9", "6", "7", "2", "9", "5">>,
     <<"4", "2", "9", "4", "9", "6", "7", "2", "9", "6">>,
     <<"4", "2", "9", "4", "9", "6", "7", "3", "0", "3">>,
     <<"9", "9", "9", "9", "9", "9", "9", "9", "9", "9">>,
     <<"4", "2", "9", "4", "9", "6", "7", "2", "9", "5", "0">>}

\* a well-formed line of each schema, put around the line under test
GoodLine(schema) == Join(SubSeq(BaseFields(schema), 1, Len(BaseFields(schema)) - 1), ":")

FieldInit ==
    /\ Parked
    /\ \/ \E schema \in Schemas :
            arg \in [op : {"from_line"}, schema : {schema}, line : FieldLines(schema)]
       \/ arg \in [op : {"next_field_str"}, line : FieldLines("group")]
       \/ arg \in [op : {"maybe_parse"}, input : NumberTexts]
       \/ arg \in [op : {"next_field_u32"}, input : U32Texts]
       \/ arg \in [op : {"to_string_or_empty"}, value : OptionValues]
       \/ arg \in [op : {"split_csv_str"}, input : CsvTexts(MaxCsvLen)]
       \/ arg \in [op : {"make_executable"}, mode : 0..MaxMode]
    /\ ret = <<>>

\* Entry::from_line on a line, and the reader on a file that holds the line
\* between two well-formed ones
CallFromLine ==
    /\ arg.op = "from_line"
    /\ ret = <<>>
    /\ ret' = [back |-> FromLine(arg.schema, arg.line),
               items |-> ReaderItems(arg.schema,
                            <<GoodLine(arg.schema) \o <<"\n">>,
                              arg.line \o <<"\n">>,
                              GoodLine(arg.schema) \o <<"\n">>>>)]
    /\ UNCHANGED <<invocation, arg>>

\* next_field_str called once more than the line has fields
CallNextFieldStr ==
    /\ arg.op = "next_field_str"
    /\ ret = <<>>
    /\ ret' = [fields |-> [i \in 1..(Len(Split(arg.line, ":")) + 1) |->
                              next_field(Split(arg.line, ":"), i)]]
    /\ UNCHANGED <<invocation, arg>>

\* next_field_u32 and next_field_u32_opt on a line of one field
CallNextFieldU32 ==
    /\ arg.op = "next_field_u32"
    /\ ret = <<>>
    /\ ret' = [required |-> next_field_u32(Split(arg.input, ":"), 1),
               optional |-> next_field_u32_opt(Split(arg.input, ":"), 1)]
    /\ UNCHANGED <<invocation, arg>>

\* maybe_parse::<u32>
CallMaybeParse ==
    /\ arg.op = "maybe_parse"
    /\ ret = <<>>
    /\ ret' = [value |-> maybe_parse(arg.input)]
    /\ UNCHANGED <<invocation, arg>>

\* to_string_or_empty, and maybe_parse on what it returned
CallToStringOrEmpty ==
    /\ arg.op = "to_string_or_empty"
    /\ ret = <<>>
    /\ ret' = [text |-> to_string_or_empty(arg.value),
               back |-> maybe_parse(to_string_or_empty(arg.value))]
    /\ UNCHANGED <<invocation, arg>>

\* split_csv_str
CallSplitCsvStr ==
    /\ arg.op = "split_csv_str"
    /\ ret = <<>>
    /\ ret' = [pieces |-> split_csv_str(arg.input)]
    /\ UNCHANGED <<invocation, arg>>

\* what make_executable did, and what a second call on the result would do
MadeExecutable(m) == [ok |-> m.ok, mode |-> m.mode, again |-> make_executable(m.mode, "ok").mode]

\* make_executable
CallMakeExecutable ==
    /\ arg.op = "make_executable"
    /\ ret = <<>>
    /\ \E io \in ChmodIo : ret' = MadeExecutable(make_executable(arg.mode, io))
    /\ UNCHANGED <<invocation, arg>>

FieldNext ==
    \/ CallFromLine
    \/ CallNextFieldStr
    \/ CallNextFieldU32
    \/ CallMaybeParse
    \/ CallToStringOrEmpty
    \/ CallSplitCsvStr
    \/ CallMakeExecutable

FieldSpec == FieldInit /\ [][FieldNext]_vars

----------------------------------------------------------------------------
\* Two invocations at the same provisioning step on the same account file.
\* Nothing locks the file: each invocation opens it, scans it and, unless
\* the scan decided otherwise, appends its record, and the operating system
\* interleaves their system calls.  A scan ends when a read finds nothing
\* more, so what it has seen is the file as it is at that moment; a write
\* is one write call on an append-mode handle.

Invocations == {1, 2}

\* the account file a provisioning step works on
StepFile(step) ==
    CASE step = "add_group" -> "group"
      [] step = "add_user" -> "passwd"
      [] step = "add_shadow" -> "shadow"

\* the scan loop of a step
StepScan_Blind(step, lines, ui) == "append"

StepScan(step, lines, ui) ==
    CASE step = "add_group" -> GroupScan(lines, ui.group, ui.gid)
      [] step = "add_user" -> PasswdScan(lines, ui.user, ui.uid)
      [] step = "add_shadow" -> ShadowScan(lines, ui.user)

\* the step after its scan
StepScanned(step, bytes, ui, io, scan) ==
    CASE step = "add_group" -> add_group_scanned(bytes, ui, io, scan)
      [] step = "add_user" -> add_user_scanned(bytes, ui, io, scan)
      [] step = "add_shadow" -> add_shadow_scanned(bytes, ui, io, scan)

\* the bytes a step asks the file to take: its record's line and a newline
StepData(step, ui) == StepScanned(step, <<>>, ui, [k |-> "ok", n |-> 0], "append").bytes

\* the identities of the two invocations: the same names, with equal or
\* with different ids
ConcIdentities ==
    {<<[uid |-> 7, gid |-> 8, user |-> <<"u">>, group |-> <<"g">>],
       [uid |-> 7, gid |-> 8, user |-> <<"u">>, group |-> <<"g">>]>>,
     <<[uid |-> 7, gid |-> 8, user |-> <<"u">>, group |-> <<"g">>],
       [uid |-> 9, gid |-> 9, user |-> <<"u">>, group |-> <<"g">>]>>}

ConcLines(step) ==
    CASE step = "add_group" ->
           {<<"a", ":", "x", ":", "1", ":">>, <<"g", ":", "x", ":", "8", ":">>}
      [] step = "add_user" ->
           {<<"a", ":", "x", ":", "1", ":", "1", ":", ":", "/", ":">>,
            <<"u", ":", "x", ":", "7", ":", "8", ":", ":", "/", ":">>}
      [] step = "add_shadow" ->
           {<<"a", ":", "*", ":", ":", ":", ":", ":", ":", ":">>,
            <<"u", ":", "!", ":", ":", ":", ":", ":", ":", ":">>}

\* an invocation before it opens the file
Fresh == [pc |-> "open", seen |-> <<>>, scan |-> "", ok |-> FALSE, err |-> "",
          at |-> 0, wrote |-> <<>>]

ConcInit ==
    /\ pc = "parked"
    /\ env = <<>>
    /\ argv = <<>>
    /\ ctx = NoContext
    /\ homedir = NoHomedir
    /\ proc = OrigProc
    /\ result = "none"
    /\ exit = [k |-> "running", code |-> 0]
    /\ orig = <<>>
    /\ trace = <<>>
    /\ \E step \in {"add_group", "add_user", "add_shadow"} :
         arg \in [op : {step}, uis : ConcIdentities,
                  bytes : CallFiles(ConcLines(step), MaxCallLines)]
    /\ files = [f \in AccountFileNames |-> IF f = StepFile(arg.op) THEN arg.bytes ELSE <<>>]
    /\ ret = [p \in Invocations |-> Fresh]

\* the shared account file
ConcFile == files[StepFile(arg.op)]

ConcFrame == UNCHANGED <<pc, env, argv, ctx, homedir, proc, result, exit, orig, trace, arg>>

\* open_read_append(path)?
ConcOpen ==
    \E p \in Invocations :
        /\ ret[p].pc = "open"
        /\ \E opened \in BOOLEAN :
             ret' = [ret EXCEPT ![p] =
                        IF opened THEN [@ EXCEPT !.pc = "scan"]
                        ELSE [@ EXCEPT !.pc = "done", !.err = "Io"]]
        /\ UNCHANGED files
        /\ ConcFrame

\* an invocation whose scan has ended on the file as it is
Scanned(p, scan) ==
    [ret[p] EXCEPT !.seen = ConcFile,
                   !.scan = scan,
                   !.pc = IF scan = "append" THEN "write" ELSE "done",
                   !.ok = (scan = "exists"),
                   !.err = IF scan \in {"append", "exists"} THEN "" ELSE scan]

\* the "for ... in &mut reader" loop, to its end or to its return
ConcScan ==
    \E p \in Invocations :
        /\ ret[p].pc = "scan"
        /\ ret' = [ret EXCEPT ![p] =
                      Scanned(p, StepScan(arg.op, ReadLines(ConcFile), arg.uis[p]))]
        /\ UNCHANGED files
        /\ ConcFrame

\* an invocation after writer.write: w is what the write returned
Written(p, w) ==
    [ret[p] EXCEPT !.pc = "done", !.ok = w.ok, !.err = w.err,
                   !.at = Len(ConcFile),
                   !.wrote = SubSeq(w.bytes, Len(ConcFile) + 1, Len(w.bytes))]

\* reader.into_inner() and writer.write(&entry): one write call through the
\* handle the scan left at the end of what it had seen
ConcWriteTo(p, w) ==
    /\ ret' = [ret EXCEPT ![p] = Written(p, w)]
    /\ files' = [files EXCEPT ![StepFile(arg.op)] = w.bytes]

ConcWrite ==
    \E p \in Invocations :
        /\ ret[p].pc = "write"
        /\ \E io \in FileIo \ {[k |-> "open_err", n |-> 0]} :
             ConcWriteTo(p, WriterWritten(
                               FileWriteAt(ConcFile,
                                           Handle(open_read_append, Len(ret[p].seen)),
                                           StepData(arg.op, arg.uis[p]), io),
                               StepData(arg.op, arg.uis[p])))
        /\ ConcFrame

ConcNext ==
    \/ ConcOpen
    \/ ConcScan
    \/ ConcWrite

ConcSpec == ConcInit /\ [][ConcNext]_vars

----------------------------------------------------------------------------
\* Properties of one invocation.

TraceOps == [i \in 1..Len(trace) |-> trace[i].op]

Issued(op) == \E i \in 1..Len(trace) : trace[i].op = op

IsPrefix(a, b) == Len(a) <= Len(b) /\ \A i \in 1..Len(a) : a[i] = b[i]

LastOp == IF trace = <<>> THEN "" ELSE trace[Len(trace)].op

ProvisionOps == {"make_homedir", "add_group", "add_user", "add_shadow"}
DropOps == {"setgroups", "setgid", "setuid"}
RootHookOps == {"root_hook.make_executable", "root_hook.run"}
UserHookOps == {"user_hook.make_executable", "user_hook.run"}

\* run_scubainit has returned an error to main
Returned == pc \in {"main", "exited"} /\ result = "Err"

\* C1: in change_user the syscalls go setgroups, setgid, setuid: setgid is
\* never issued before setgroups has succeeded, setuid never before setgid
\* has succeeded, and none of the three is issued twice.
C1_DropOrder ==
    \A i \in 1..Len(trace) :
        /\ trace[i].op = "setgid" =>
             \E j \in 1..(i - 1) : trace[j].op = "setgroups" /\ trace[j].ok
        /\ trace[i].op = "setuid" =>
             \E j \in 1..(i - 1) : trace[j].op = "setgid" /\ trace[j].ok
        /\ trace[i].op \in DropOps =>
             \A j \in 1..(i - 1) : trace[j].op # trace[i].op

C1_Witness ==
    \E i \in 1..Len(trace) : trace[i].op = "setuid" /\ trace[i].ok

\* C2: a failed setgroups, setgid or setuid is the last thing the invocation
\* does: nothing is issued after it (no retry, no later syscall, no umask,
\* no user hook, no exec), run_scubainit returns the error, and USER,
\* LOGNAME, HOME and the umask are as they were at start.
C2_DropFailureFatal ==
    \A i \in 1..Len(trace) :
        (trace[i].op \in DropOps /\ ~trace[i].ok) =>
            /\ i = Len(trace)
            /\ Returned
            /\ exit.k # "replaced"
            /\ IdVars(env) = IdVars(orig.env)
            /\ proc.umask = OrigProc.umask

C2_Witness ==
    /\ pc = "exited"
    /\ ctx.umask.some /\ ctx.user_hook.some
    /\ \E i \in 1..Len(trace) : trace[i].op = "setgid" /\ ~trace[i].ok

\* C3: a failed provisioning step is the last thing the invocation does:
\* run_scubainit returns the error, no root hook and no privilege syscall
\* was or is issued, and the process identity is the original one.
C3_ProvisionFailureFatal ==
    \A i \in 1..Len(trace) :
        (trace[i].op \in ProvisionOps /\ ~trace[i].ok) =>
            /\ i = Len(trace)
            /\ Returned
            /\ proc = OrigProc
            /\ \A j \in 1..Len(trace) : trace[j].op \notin RootHookOps \cup DropOps

C3_Witness ==
    /\ pc = "exited"
    /\ ctx.root_hook.some
    /\ \E i \in 1..Len(trace) : trace[i].op = "add_user" /\ ~trace[i].ok

\* the stages of a run with an identity, in the order the specification gives
HookStages(which, path_str) ==
    IF path_str.some THEN <<which \o ".make_executable", which \o ".run">> ELSE <<>>

ExpectedStages(c) ==
    <<"process_envvars", "make_homedir", "add_group", "add_user", "add_shadow">>
    \o HookStages("root_hook", c.root_hook)
    \o <<"setgroups", "setgid", "setuid", "set_env">>
    \o (IF c.umask.some THEN <<"umask">> ELSE <<>>)
    \o HookStages("user_hook", c.user_hook)
    \o <<"execvp">>

\* C4: with an identity the stages happen in the order home directory,
\* group, passwd, shadow, root hook, privilege drop, environment rebind,
\* umask, user hook, exec, and a run that reaches the exec went through all
\* of them; the root hook runs under the original identity and the user
\* hook under the new one, after setuid succeeded.
C4_StageOrder ==
    ctx.user_info.some =>
        /\ IsPrefix(TraceOps, ExpectedStages(ctx))
        /\ exit.k = "replaced" =>
             /\ TraceOps = ExpectedStages(ctx)
             /\ \A i \in 1..Len(trace) : trace[i].ok
        /\ \A i \in 1..Len(trace) :
             /\ trace[i].op \in RootHookOps => trace[i].proc = OrigProc
             /\ trace[i].op \in UserHookOps =>
                  /\ trace[i].proc.uid = ctx.user_info.v.uid
                  /\ trace[i].proc.gid = ctx.user_info.v.gid
                  /\ trace[i].proc.groups = {}
                  /\ \E j \in 1..(i - 1) : trace[j].op = "setuid" /\ trace[j].ok

C4_Witness ==
    /\ exit.k = "replaced"
    /\ ctx.user_info.some /\ ctx.root_hook.some /\ ctx.user_hook.some /\ ctx.umask.some

\* C5: without an identity the user hook is neither made executable nor
\* run, even if one is configured, and the run still gets to execvp unless
\* the configuration, the root hook or a missing command stopped it.
C5_UserHookNeedsIdentity ==
    ~ctx.user_info.some =>
        /\ \A i \in 1..Len(trace) : trace[i].op \notin UserHookOps
        /\ ( /\ pc \in {"main", "exited", "replaced"}
             /\ argv # <<>>
             /\ \A i \in 1..Len(trace) :
                  trace[i].op \in RootHookOps \cup {"process_envvars"} => trace[i].ok )
           => Issued("execvp")

C5_Witness ==
    /\ ~ctx.user_info.some
    /\ ctx.user_hook.some
    /\ exit.k = "replaced"

\* C6: without an identity the account files, the home directory, the uid,
\* gid and supplementary groups and USER, LOGNAME and HOME stay as they were
\* at start, and no provisioning step or privilege syscall is issued.
C6_NoIdentityNoChange ==
    ~ctx.user_info.some =>
        /\ files = orig.files
        /\ homedir = orig.homedir
        /\ proc.uid = OrigProc.uid
        /\ proc.gid = OrigProc.gid
        /\ proc.groups = OrigProc.groups
        /\ IdVars(env) = IdVars(orig.env)
        /\ \A i \in 1..Len(trace) :
             trace[i].op \notin ProvisionOps \cup DropOps \cup {"set_env"}

C6_Witness ==
    /\ ~ctx.user_info.some
    /\ exit.k = "replaced"
    /\ orig.files.group # <<>>
    /\ ctx.root_hook.some

\* the umask the configuration asks for, else the one the process started with
WantedUmask == IF ctx.umask.some THEN ctx.umask.v % 512 ELSE OrigProc.umask

\* C7: the root hook and the privilege drop run under the original umask;
\* the user hook and the exec run under the configured umask, with or
\* without an identity; with no umask configured the umask never changes.
C7_Umask ==
    /\ \A i \in 1..Len(trace) :
         /\ trace[i].op \in RootHookOps \cup DropOps \cup {"set_env", "umask"} =>
              trace[i].proc.umask = OrigProc.umask
         /\ trace[i].op \in UserHookOps \cup {"execvp"} =>
              trace[i].proc.umask = WantedUmask
         /\ trace[i].op = "umask" =>
              \A j \in 1..(i - 1) : trace[j].op \notin UserHookOps \cup {"execvp"}
    /\ pc \in {"call_user_hook", "exec", "replaced"} => proc.umask = WantedUmask
    /\ ~ctx.umask.some => proc.umask = OrigProc.umask /\ ~Issued("umask")

C7_Witness ==
    /\ ~ctx.user_info.some
    /\ ctx.umask.some
    /\ exit.k = "replaced"
    /\ proc.umask # OrigProc.umask

\* C8: a hook that cannot be made executable, cannot be started, exits
\* non-zero or is killed by a signal makes call_hook fail, and that failure
\* is the last thing the invocation does (no privilege syscall and no exec
\* after a failed root hook, no exec after a failed user hook); a hook that
\* exits 0 and an unconfigured hook succeed.
C8_HookFailureFatal ==
    /\ \A i \in 1..Len(trace) :
         (trace[i].op \in RootHookOps \cup UserHookOps /\ ~trace[i].ok) =>
             /\ i = Len(trace)
             /\ Returned
             /\ exit.k # "replaced"
    /\ \A o \in HookOutcomes :
         /\ call_hook(Some(<<"/", "h">>), o).ok <=> o = "exit0"
         /\ call_hook(None, o) = [ok |-> TRUE, issued |-> <<>>]
    /\ pc = "call_root_hook" => ~Issued("root_hook.run")

C8_Witness ==
    /\ pc = "exited"
    /\ \E i \in 1..Len(trace) : trace[i].op = "user_hook.run" /\ ~trace[i].ok
    /\ \E i \in 1..Len(trace) : trace[i].op = "root_hook.run" /\ trace[i].ok

IdentityNames == {"SCUBAINIT_UID", "SCUBAINIT_GID", "SCUBAINIT_USER", "SCUBAINIT_GROUP"}

\* how many of the four identity variables are set in environment e
GivenCount(e) == Cardinality({n \in IdentityNames : e[n].k # "unset"})

\* SCUBAINIT_UID and SCUBAINIT_GID of e are text that parses as a u32
ValidIds(e) ==
    \A n \in {"SCUBAINIT_UID", "SCUBAINIT_GID"} : e[n].k = "text" /\ ParseU32(e[n].s).ok

\* C9: process_envvars_user_info yields no identity when none of the four
\* variables is set, an identity when all four are set with valid uid and
\* gid, and an error when one, two or three are set; on that error nothing
\* is provisioned, no hook runs and no privilege changes.
C9_AllOrNothing ==
    LET r == process_envvars_user_info(orig.env)
    IN  /\ GivenCount(orig.env) = 0 => r.ok /\ ~r.v.some
        /\ (GivenCount(orig.env) = 4 /\ ValidIds(orig.env)) => r.ok /\ r.v.some
        /\ GivenCount(orig.env) \in 1..3 =>
             /\ ~r.ok
             /\ Len(trace) <= 1
             /\ files = orig.files /\ homedir = orig.homedir /\ proc = OrigProc

\* C10: the process never ends itself with a success status: run_scubainit
\* never returns Ok, every exit is with status 99, and the only other end is
\* the image replaced by a successful execvp.
C10_NeverExitsZero ==
    /\ result # "Ok"
    /\ pc \in {"main", "exited"} => result = "Err"
    /\ exit.k = "exited" => exit.code = 99
    /\ exit.k = "replaced" => LastOp = "execvp" /\ trace[Len(trace)].ok

C10_Witness ==
    /\ exit.k = "exited"
    /\ LastOp = "execvp"

----------------------------------------------------------------------------
\* Properties of the provisioning steps called directly.

\* the name and the id the step is asked for
WantedName == IF arg.op = "add_group" THEN arg.ui.group ELSE arg.ui.user
WantedId == IF arg.op = "add_group" THEN arg.ui.gid ELSE arg.ui.uid

\* the items a reader yields on file content f
ItemsOf(f) == ReaderItems(CallSchema, ReadLines(f))

\* the items a reader yields on the file as call k found it
CallItems(k) == ret[k].items

ItemId(it) == IF arg.op = "add_group" THEN it.v.gid ELSE it.v.uid

\* item it is a record with the requested name
Named(it) == it.ok /\ it.v.name = WantedName

\* every item before the i-th is a record with another name
ScanReaches(items, i) == \A j \in 1..(i - 1) : items[j].ok /\ ~Named(items[j])

\* some record of the file has the requested name
SomeNamed(items) == \E i \in 1..Len(items) : Named(items[i])

\* every line of the file that is no comment and not blank is a record
AllRecords(items) == \A i \in 1..Len(items) : items[i].ok

\* the file is empty or its last line ends with a newline
Terminated(f) == f = <<>> \/ f[Len(f)] = "\n"

\* the operating system opened the file for call k / did all that call k asked
Opened(k) == ret[k].io.k # "open_err"
IoOk(k) == ret[k].io.k = "ok"

KeyedCall == arg.op \in {"add_group", "add_user"}

\* C11 as stated: whenever the file holds a record with the requested name
\* and another id, add_group / add_user fails with a conflict error and
\* leaves the file byte-identical.
C11_ConflictAnyRecord ==
    \A k \in 1..Len(ret) :
        ( /\ KeyedCall
          /\ Opened(k)
          /\ \E i \in 1..Len(CallItems(k)) :
               Named(CallItems(k)[i]) /\ ItemId(CallItems(k)[i]) # WantedId )
        => /\ ~ret[k].ok
           /\ ret[k].err = "conflict"
           /\ ret[k].after = ret[k].before

\* C11: when the first record with the requested name carries another id,
\* and every line before it is a record, add_group / add_user fails with a
\* conflict error and leaves the file byte-identical.
C11_ConflictFirstRecord ==
    \A k \in 1..Len(ret) :
        ( /\ KeyedCall
          /\ Opened(k)
          /\ \E i \in 1..Len(CallItems(k)) :
               /\ Named(CallItems(k)[i])
               /\ ItemId(CallItems(k)[i]) # WantedId
               /\ ScanReaches(CallItems(k), i) )
        => /\ ~ret[k].ok
           /\ ret[k].err = "conflict"
           /\ ret[k].after = ret[k].before

C11_Witness ==
    /\ Len(ret) = 1
    /\ arg.op = "add_group"
    /\ Len(CallItems(1)) = 2
    /\ Named(CallItems(1)[2])
    /\ ret[1].err = "conflict"
    /\ ret[1].after = arg.bytes

\* C12 as stated: whenever the file holds a record with the requested name
\* and the requested id, add_group / add_user succeeds and leaves the file
\* byte-identical.
C12_ExistsAnyRecord ==
    \A k \in 1..Len(ret) :
        ( /\ KeyedCall
          /\ Opened(k)
          /\ \E i \in 1..Len(CallItems(k)) :
               Named(CallItems(k)[i]) /\ ItemId(CallItems(k)[i]) = WantedId )
        => /\ ret[k].ok
           /\ ret[k].after = ret[k].before

\* C12: when the first record with the requested name carries the requested
\* id, and every line before it is a record, add_group / add_user succeeds
\* and leaves the file byte-identical.
C12_ExistsFirstRecord ==
    \A k \in 1..Len(ret) :
        ( /\ KeyedCall
          /\ Opened(k)
          /\ \E i \in 1..Len(CallItems(k)) :
               /\ Named(CallItems(k)[i])
               /\ ItemId(CallItems(k)[i]) = WantedId
               /\ ScanReaches(CallItems(k), i) )
        => /\ ret[k].ok
           /\ ret[k].after = ret[k].before

C12_Witness ==
    /\ Len(ret) = 1
    /\ arg.op = "add_user"
    /\ Len(CallItems(1)) = 2
    /\ Named(CallItems(1)[2])
    /\ ret[1].ok
    /\ ret[1].after = arg.bytes

\* the records of file content f that carry the requested id
WithWantedId(f) ==
    {i \in 1..Len(ItemsOf(f)) : ItemsOf(f)[i].ok /\ ItemId(ItemsOf(f)[i]) = WantedId}

\* some record carries the requested id under another name, none the requested name
IdCollision(items) ==
    /\ \E i \in 1..Len(items) :
         items[i].ok /\ ItemId(items[i]) = WantedId /\ ~Named(items[i])
    /\ ~SomeNamed(items)

StatedLine ==
    IF arg.op = "add_group"
    THEN arg.ui.group \o <<":", "x", ":">> \o U32ToString(arg.ui.gid) \o <<":">>
    ELSE arg.ui.user \o <<":", "x", ":">> \o U32ToString(arg.ui.uid) \o <<":">>
         \o U32ToString(arg.ui.gid) \o <<":">> \o arg.ui.user
         \o <<":", "/", "h", "o", "m", "e", "/">> \o arg.ui.user
         \o <<":", "/", "b", "i", "n", "/", "b", "a", "s", "h">>

\* the same line with the home path as Path::join computes it: an absolute
\* user name replaces /home
JoinedLine ==
    IF arg.op = "add_group" \/ Head(arg.ui.user) # "/"
    THEN StatedLine
    ELSE arg.ui.user \o <<":", "x", ":">> \o U32ToString(arg.ui.uid) \o <<":">>
         \o U32ToString(arg.ui.gid) \o <<":">> \o arg.ui.user
         \o <<":">> \o arg.ui.user
         \o <<":", "/", "b", "i", "n", "/", "b", "a", "s", "h">>

\* C14 as stated: whenever no record has the requested name, add_group
\* appends '<group>:x:<gid>:' and add_user appends
\* '<user>:x:<uid>:<gid>:<user>:/home/<user>:/bin/bash', each with one newline.
C14_AppendsStatedLine ==
    \A k \in 1..Len(ret) :
        (KeyedCall /\ IoOk(k) /\ ~SomeNamed(CallItems(k)))
        => /\ ret[k].ok
           /\ ret[k].after = ret[k].before \o StatedLine \o <<"\n">>

\* C14: when no record has the requested name and every line that is no
\* comment and not blank is a record, add_group appends '<group>:x:<gid>:'
\* and add_user appends '<user>:x:<uid>:<gid>:<user>:<home>:/bin/bash', each
\* with one newline, where <home> is /home/<user>, or <user> itself when it
\* starts with '/'.
C14_AppendsJoinedLine ==
    \A k \in 1..Len(ret) :
        (KeyedCall /\ IoOk(k) /\ ~SomeNamed(CallItems(k)) /\ AllRecords(CallItems(k)))
        => /\ ret[k].ok
           /\ ret[k].after = ret[k].before \o JoinedLine \o <<"\n">>

C14_Witness ==
    /\ Len(ret) = 1
    /\ arg.op = "add_user"
    /\ arg.bytes # <<>>
    /\ ret[1].ok
    /\ ret[1].after = arg.bytes \o StatedLine \o <<"\n">>

\* the name field of every line the reader does not skip, whatever follows it
RECURSIVE LineNames(_)
LineNames(lines) ==
    IF lines = <<>> THEN <<>>
    ELSE IF Head(lines)[1] = "#" \/ TrimEnd(Head(lines)) = <<>>
         THEN LineNames(Tail(lines))
         ELSE <<Split(TrimEnd(Head(lines)), ":")[1]>> \o LineNames(Tail(lines))

\* the line the claim gives for a new shadow record
StatedShadowLine == arg.ui.user \o <<":", "x", ":", ":", ":", ":", ":", ":", ":">>

\* C15 as stated: if any shadow line has the requested user name, whatever
\* its other fields, add_shadow succeeds and leaves the file byte-identical;
\* otherwise it appends exactly '<user>:x:::::::' and a newline.
C15_ShadowAnyFields ==
    \A k \in 1..Len(ret) :
        (arg.op = "add_shadow" /\ IoOk(k))
        => IF \E i \in 1..Len(LineNames(ReadLines(ret[k].before))) :
                LineNames(ReadLines(ret[k].before))[i] = arg.ui.user
           THEN ret[k].ok /\ ret[k].after = ret[k].before
           ELSE ret[k].ok /\ ret[k].after = ret[k].before \o StatedShadowLine \o <<"\n">>

\* C15: add_shadow matches on the user name only, among lines that parse:
\* when the first record with the requested name is reached over records
\* only, it succeeds and leaves the file byte-identical, whatever that
\* record's password and numeric fields; when every line that is no comment
\* and not blank is a record and none has the name, it appends exactly
\* '<user>:x:::::::' and a newline.
C15_ShadowByName ==
    \A k \in 1..Len(ret) :
        (arg.op = "add_shadow" /\ IoOk(k))
        => /\ (\E i \in 1..Len(CallItems(k)) :
                 Named(CallItems(k)[i]) /\ ScanReaches(CallItems(k), i))
              => ret[k].ok /\ ret[k].after = ret[k].before
           /\ (AllRecords(CallItems(k)) /\ ~SomeNamed(CallItems(k)))
              => /\ ret[k].ok
                 /\ ret[k].after = ret[k].before \o StatedShadowLine \o <<"\n">>

C15_Witness ==
    /\ Len(ret) = 1
    /\ arg.op = "add_shadow"
    /\ Len(CallItems(1)) = 2
    /\ Named(CallItems(1)[2])
    /\ CallItems(1)[2].v.passwd # <<"x">>
    /\ CallItems(1)[2].v.last_change_date.some
    /\ ret[1].ok
    /\ ret[1].after = arg.bytes

\* C16 as stated: for every file content and identity, a step run again
\* after it succeeded appends nothing: the file is byte-identical to the one
\* the first run left.
C16_Idempotent ==
    \A k \in 2..Len(ret) :
        (ret[k - 1].ok /\ IoOk(k - 1) /\ IoOk(k))
        => ret[k].after = ret[k].before

----------------------------------------------------------------------------
\* Properties of the record schemas, the reader and the writer.

AccountFiles == {"group", "passwd", "shadow"}

\* a direct call of the reader or the writer has returned
Answered(op) == arg # <<>> /\ arg.op = op /\ ret # <<>>

\* C17, as stated: for any file content and any number of records read from
\* it first, a successful writer.write(entry) on the same handle leaves
\* every line the file had unchanged and in place, and the final line of
\* the file is entry.to_line().
C17_ReadThenAppend ==
    (Answered("read_write") /\ ret.ok) =>
        ReadLines(ret.after) =
            ReadLines(arg.bytes) \o <<ToLine(arg.schema, arg.entry) \o <<"\n">>>>

\* what an account file has gained since the invocation began
Grown(f) == SubSeq(files[f], Len(orig.files[f]) + 1, Len(files[f]))

\* C18: over one whole invocation each account file keeps every byte it had,
\* in place, so that its content before is a prefix of its content at any
\* later point, and it gains at most one record line: what it gained holds
\* no newline except as its last byte.
C18_AppendOnly ==
    \A f \in AccountFiles :
        /\ IsPrefix(orig.files[f], files[f])
        /\ \A i \in 1..(Len(Grown(f)) - 1) : Grown(f)[i] # "\n"

\* C18 witness: an invocation that ran to its end over account files that
\* held lines, and appended a whole record line to each of the three.
C18_Witness ==
    /\ exit.k # "running"
    /\ \A f \in AccountFiles :
         /\ orig.files[f] # <<>>
         /\ Grown(f) # <<>>
         /\ Grown(f)[Len(Grown(f))] = "\n"

NoChar(s, c) == \A i \in 1..Len(s) : s[i] # c

\* the free-text fields of a record
TextFields(schema, e) ==
    CASE schema = "group" -> <<e.name, e.passwd>> \o e.members
      [] schema = "passwd" -> <<e.name, e.passwd, e.gecos, e.home_dir, e.shell>>
      [] schema = "shadow" -> <<e.name, e.passwd>>

\* a record the line format can hold: no ':' in a text field, and every
\* member of a group non-empty and without ','
Representable(schema, e) ==
    /\ \A i \in 1..Len(TextFields(schema, e)) : NoChar(TextFields(schema, e)[i], ":")
    /\ schema = "group" =>
          \A i \in 1..Len(e.members) :
              e.members[i] # <<>> /\ NoChar(e.members[i], ",")

\* a line the reader hands to from_line as it was written: it holds no
\* newline, does not begin with '#' and does not end in whitespace
ReadableLine(line) ==
    /\ NoChar(line, "\n")
    /\ line # <<>>
    /\ line[1] # "#"
    /\ TrimEnd(line) = line

Comment(line) == line[1] = "#"
Blank(line) == TrimEnd(line) = <<>>
ValidUtf8(line) == NoChar(line, BadByte)

\* the lines left of a file once its comment lines and blank lines are set
\* aside
RECURSIVE Remaining(_)
Remaining(lines) ==
    IF lines = <<>> THEN <<>>
    ELSE IF Comment(Head(lines)) \/ Blank(Head(lines)) THEN Remaining(Tail(lines))
    ELSE <<Head(lines)>> \o Remaining(Tail(lines))

\* the lines of a file the reader yields an item for
RECURSIVE Yielding(_)
Yielding(lines) ==
    IF lines = <<>> THEN <<>>
    ELSE IF ValidUtf8(Head(lines)) /\ (Comment(Head(lines)) \/ Blank(Head(lines)))
         THEN Yielding(Tail(lines))
    ELSE <<Head(lines)>> \o Yielding(Tail(lines))

\* the item a line stands for
ItemOf(schema, line) ==
    IF ValidUtf8(line) THEN FromLine(schema, TrimEnd(line)) ELSE ParseErr("Io")

ItemsFor(schema, lines) == [i \in 1..Len(lines) |-> ItemOf(schema, lines[i])]

\* C20, as stated: the reader never yields an item for a line that begins
\* with '#' or for a blank line, and for any file the items yielded
\* correspond one to one, in file order, to the remaining lines.
C20_SkipLaw ==
    Answered("read") =>
        ret.items = ItemsFor(arg.schema, Remaining(ReadLines(arg.bytes)))

\* C20, amended: the reader yields no item for a line of valid UTF-8 that
\* begins with '#' or is empty once its trailing whitespace is trimmed; a
\* line that is not valid UTF-8 yields an Io error item whether or not it
\* begins with '#'; the items yielded correspond one to one, in file order,
\* to the lines not skipped, each the result of from_line on the line with
\* its trailing whitespace trimmed.
C20_SkipLawUtf8 ==
    Answered("read") =>
        ret.items = ItemsFor(arg.schema, Yielding(ReadLines(arg.bytes)))

\* C20 witness: a file of a skipped line and a record line, read as the one
\* record.
C20_Witness ==
    /\ Answered("read")
    /\ Len(ReadLines(arg.bytes)) = 2
    /\ Len(Yielding(ReadLines(arg.bytes))) = 1
    /\ Len(ret.items) = 1
    /\ ret.items[1].ok

----------------------------------------------------------------------------
\* Properties of the line parsers and the helpers.

\* the fields of the line a parser was called on
Parts == Split(arg.line, ":")

\* how many fields each schema takes from a line
RequiredFields(schema) ==
    CASE schema = "group" -> 4 [] schema = "passwd" -> 7 [] schema = "shadow" -> 8

\* the positions of the numeric fields of each schema
NumericAt(schema) ==
    CASE schema = "group" -> {3} [] schema = "passwd" -> {3, 4} [] schema = "shadow" -> 3..8

\* an unsigned decimal numeral
Unsigned(v) == v # <<>> /\ \A j \in 1..Len(v) : IsDigit(v[j])

\* a numeral without its leading zeros
RECURSIVE Canonical(_)
Canonical(v) == IF Len(v) > 1 /\ Head(v) = "0" THEN Canonical(Tail(v)) ELSE v

\* the decimal text of u32::MAX
U32MaxText == <<"4", "2", "9", "4", "9", "6", "7", "2", "9", "5">>

\* numeral a, of as many digits as numeral b, is at most b
AtMost(a, b) ==
    \/ a = b
    \/ \E i \in 1..Len(a) :
          /\ DigitVal(a[i]) < DigitVal(b[i])
          /\ \A j \in 1..(i - 1) : a[j] = b[j]

\* a numeral whose value is at most u32::MAX
FitsU32(v) ==
    \/ Len(Canonical(v)) < Len(U32MaxText)
    \/ Len(Canonical(v)) = Len(U32MaxText) /\ AtMost(Canonical(v), U32MaxText)

\* a value that is a number as str::parse::<u32> reads one: a numeral, or
\* a '+' and a numeral, of a value that is at most u32::MAX
Numeric(v) ==
    \/ Unsigned(v) /\ FitsU32(v)
    \/ v # <<>> /\ Head(v) = "+" /\ Unsigned(Tail(v)) /\ FitsU32(Tail(v))

\* the value a numeric field of the schema may hold
FieldParses(schema, v) == Numeric(v) \/ (schema = "shadow" /\ v = <<>>)

\* every numeric field the line has holds a value its schema takes
NumbersParse(schema, parts) ==
    \A i \in NumericAt(schema) : i <= Len(parts) => FieldParses(schema, parts[i])

GoodItem(schema) == FromLine(schema, GoodLine(schema))

\* next_field_str returns the fields of the line in order, then Invalid
NextFieldStrLaw ==
    Answered("next_field_str") =>
        /\ \A i \in 1..Len(Parts) : ret.fields[i] = ParseOk(Parts[i])
        /\ ret.fields[Len(Parts) + 1] = ParseErr("Invalid")

\* C21, as stated: a line with fewer fields than the schema requires makes
\* from_line return Invalid, and the reader yields that error as an item in
\* the line's position instead of skipping the line; next_field_str returns
\* the fields in order and Invalid once none remains.
C21_TooFewIsInvalid ==
    /\ (Answered("from_line") /\ Len(Parts) < RequiredFields(arg.schema)) =>
          /\ ret.back = ParseErr("Invalid")
          /\ ret.items = <<GoodItem(arg.schema), ParseErr("Invalid"), GoodItem(arg.schema)>>
    /\ NextFieldStrLaw

\* C21, amended: a line with fewer fields than the schema requires makes
\* from_line fail, with Invalid when every numeric field the line does have
\* parses and with ParseInt otherwise (the fields are taken left to right
\* and the first failure decides); the reader yields that error as an item
\* in the line's position unless the line begins with '#' or is blank, in
\* which case it skips the line; next_field_str returns the fields in order
\* and Invalid once none remains.
C21_TooFewFails ==
    /\ (Answered("from_line") /\ Len(Parts) < RequiredFields(arg.schema)) =>
          /\ ret.back = ParseErr(IF NumbersParse(arg.schema, Parts)
                                 THEN "Invalid" ELSE "ParseInt")
          /\ ret.items =
                IF Comment(arg.line \o <<"\n">>) \/ Blank(arg.line \o <<"\n">>)
                THEN <<GoodItem(arg.schema), GoodItem(arg.schema)>>
                ELSE <<GoodItem(arg.schema), ret.back, GoodItem(arg.schema)>>
    /\ NextFieldStrLaw

\* C21 witness: a shadow line of six fields, as in too_few_fields_none,
\* yielded by the reader as Invalid between the two records around it.
C21_Witness ==
    /\ Answered("from_line")
    /\ arg.schema = "shadow"
    /\ Len(Parts) = 6
    /\ ret.back = ParseErr("Invalid")
    /\ Len(ret.items) = 3
    /\ ret.items[2] = ParseErr("Invalid")

ShadowOptional(sp) ==
    <<sp.last_change_date, sp.min_password_age, sp.max_password_age,
      sp.warn_period, sp.inact_period, sp.expire_date>>

\* the decimal text of a number: a numeral of that value without leading zeros
DecimalOf(text, v) ==
    /\ Unsigned(text)
    /\ DigitsValue(text, 0) = v
    /\ Len(text) = 1 \/ text[1] # "0"

\* C23: an empty optional field parses to None and a non-empty valid one to
\* Some(value); None is serialized as the empty string and Some(v) as the
\* decimal text of v; parse(serialize(x)) = x; and each of the six optional
\* fields of a shadow line that parses is None when empty and Some(value)
\* otherwise.
C23_OptionalField ==
    /\ Answered("maybe_parse") =>
          /\ arg.input = <<>> => ret.value = ParseOk(None)
          /\ (Unsigned(arg.input) /\ FitsU32(arg.input)) =>
                ret.value = ParseOk(Some(DigitsValue(arg.input, 0)))
    /\ Answered("to_string_or_empty") =>
          /\ ~arg.value.some => ret.text = <<>>
          /\ arg.value.some => DecimalOf(ret.text, arg.value.v)
          /\ ret.back = ParseOk(arg.value)
    /\ (Answered("from_line") /\ arg.schema = "shadow" /\ ret.back.ok) =>
          \A i \in 1..6 :
              ShadowOptional(ret.back.v)[i] =
                  IF Parts[i + 2] = <<>> THEN None
                  ELSE Some(DigitsValue(SelectSeq(Parts[i + 2], IsDigit), 0))

\* C23 witness: a shadow line parsed with an empty optional field read as
\* None and a filled one as Some(9), and serialized back to the same fields.
C23_Witness ==
    /\ Answered("from_line")
    /\ arg.schema = "shadow"
    /\ ret.back.ok
    /\ ret.back.v.min_password_age = None
    /\ ret.back.v.max_password_age = Some(9)
    /\ ToLine("shadow", ret.back.v) = Join(SubSeq(Parts, 1, 8) \o <<<<>>>>, ":")

Commas(s) == Cardinality({i \in 1..Len(s) : s[i] = ","})

\* C24: split_csv_str("") is the empty sequence; for a non-empty input it
\* returns the pieces between the commas in order: (number of commas + 1)
\* pieces, none holding a comma, an empty piece where a comma leads or
\* trails, and the pieces joined with ',' give back the input.
C24_CsvLaw ==
    Answered("split_csv_str") =>
        /\ arg.input = <<>> => ret.pieces = <<>>
        /\ arg.input # <<>> =>
              /\ Len(ret.pieces) = Commas(arg.input) + 1
              /\ \A i \in 1..Len(ret.pieces) : NoChar(ret.pieces[i], ",")
              /\ arg.input[1] = "," => ret.pieces[1] = <<>>
              /\ arg.input[Len(arg.input)] = "," => ret.pieces[Len(ret.pieces)] = <<>>
              /\ Join(ret.pieces, ",") = arg.input

\* C24 witness: ",a," split to an empty piece, 'a' and an empty piece.
C24_Witness ==
    /\ Answered("split_csv_str")
    /\ arg.input = <<",", "a", ",">>
    /\ ret.pieces = <<<<>>, <<"a">>, <<>>>>

\* a direct call of the writer has returned
Wrote == Answered("write_read") \/ Answered("read_write")

\* the bytes the writer asked the file to take
WriteData == ToLine(arg.schema, arg.entry) \o <<"\n">>

\* C25: EntFileWriter::write returns Ok only if the underlying write took
\* every byte of to_line(entry) and one newline, which are then at the end
\* of the file; fewer bytes taken than asked give a 'Short write' error, an
\* I/O error of the underlying write is returned as it is, and a partially
\* written line is never reported as success.
C25_WriteAllOrError ==
    Wrote =>
        /\ ret.ok <=> ret.io.k = "ok"
        /\ ret.ok => ret.after = ret.before \o WriteData
        /\ (ret.io.k = "short" /\ ret.io.n < Len(WriteData)) =>
              ~ret.ok /\ ret.err = "Short write"
        /\ ret.io.k = "err" => ~ret.ok /\ ret.err = "Io" /\ ret.after = ret.before
        /\ ret.after # ret.before \o WriteData => ~ret.ok

\* C25 witness: a write of which the file took one byte, reported as a
\* short write.
C25_Witness ==
    /\ Wrote
    /\ ret.io.k = "short"
    /\ Len(ret.after) = Len(ret.before) + 1
    /\ ~ret.ok
    /\ ret.err = "Short write"

\* C26, as stated: a passwd line parses only if it has exactly 7 fields, a
\* group line only if it has exactly 4, a shadow line only if it has 8 or 9.
C26_ExactFieldCount ==
    (Answered("from_line") /\ ret.back.ok) =>
        Len(Parts) \in (CASE arg.schema = "group" -> {4}
                          [] arg.schema = "passwd" -> {7}
                          [] arg.schema = "shadow" -> {8, 9})

\* C26, amended: a line parses exactly when it has at least as many fields
\* as its schema takes (7 for passwd, 4 for group, 8 for shadow) and its
\* numeric fields parse; the fields after those are ignored, so the record
\* is the one the line cut after them parses to.
C26_AtLeastFieldCount ==
    Answered("from_line") =>
        /\ ret.back.ok <=> /\ Len(Parts) >= RequiredFields(arg.schema)
                           /\ NumbersParse(arg.schema, Parts)
        /\ ret.back.ok =>
              ret.back = FromLine(arg.schema,
                            Join(SubSeq(Parts, 1, RequiredFields(arg.schema)), ":"))

\* C26 witness: a passwd line of eight fields parsed to a record.
C26_Witness ==
    /\ Answered("from_line")
    /\ arg.schema = "passwd"
    /\ Len(Parts) = 8
    /\ ret.back.ok

\* bit k of a file mode
Bit(m, k) == (m \div (2 ^ k)) % 2

\* C30: make_executable sets mode' = mode | ((mode & 0o444) >> 2): for each
\* of owner, group and other the execute bit is set afterwards exactly when
\* it was set before or the read bit of the class is set; every other bit
\* is as before, no bit is cleared, and a second application changes
\* nothing.
C30_MakeExecutable ==
    (Answered("make_executable") /\ ret.ok) =>
        /\ \A c \in {0, 3, 6} :
              Bit(ret.mode, c) = 1 <=> (Bit(arg.mode, c) = 1 \/ Bit(arg.mode, c + 2) = 1)
        /\ \A k \in (0..11) \ {0, 3, 6} : Bit(ret.mode, k) = Bit(arg.mode, k)
        /\ \A k \in 0..11 : Bit(arg.mode, k) <= Bit(ret.mode, k)
        /\ ret.again = ret.mode

\* C30 witness: a file of mode 0o640 made 0o750.
C30_Witness ==
    /\ Answered("make_executable")
    /\ ret.ok
    /\ arg.mode = 416
    /\ ret.mode = 488

----------------------------------------------------------------------------
\* Properties of the environment rebind.

\* change_user has set USER, LOGNAME and HOME
Rebound == Issued("set_env")

SetuidDone == \E i \in 1..Len(trace) : trace[i].op = "setuid" /\ trace[i].ok

\* the record add_user appended, when it appended a whole line
AppendedUser ==
    PasswdFromLine(SubSeq(Grown("passwd"), 1, Len(Grown("passwd")) - 1))

AppendedWhole(f) == Grown(f) # <<>> /\ Grown(f)[Len(Grown(f))] = "\n"

\* USER, LOGNAME and HOME change only after setuid has succeeded; once set,
\* USER and LOGNAME are the requested user name and HOME is home, the path
\* add_user wrote as home_dir; the root hook sees the original values
RebindLaw(home) ==
    /\ IdVars(env) # IdVars(orig.env) => SetuidDone
    /\ ~Rebound => IdVars(env) = IdVars(orig.env)
    /\ Rebound =>
          /\ env["USER"] = Text(ctx.user_info.v.user)
          /\ env["LOGNAME"] = Text(ctx.user_info.v.user)
          /\ env["HOME"] = Text(home)
          /\ AppendedWhole("passwd") =>
                AppendedUser.ok /\ AppendedUser.v.home_dir = home
    /\ \A i \in 1..Len(trace) :
          trace[i].op \in RootHookOps => trace[i].id = IdVars(orig.env)

\* C29, as stated: USER, LOGNAME and HOME are overwritten only after setuid
\* has succeeded; after a successful change_user USER = LOGNAME = the
\* requested user name and HOME = '/home/<user>', the path add_user wrote as
\* home_dir; the root hook sees the original values.
C29_RebindHomeUnderHome ==
    RebindLaw(IF ctx.user_info.some
              THEN USER_HOME \o <<"/">> \o ctx.user_info.v.user ELSE <<>>)

\* C29, amended: as stated, except that HOME is Path::new("/home").join(user):
\* '/home/<user>' for a user name that does not begin with '/', and the user
\* name itself for one that does.  It is in both cases the path add_user
\* wrote as home_dir.
C29_RebindHomeJoined ==
    RebindLaw(IF ctx.user_info.some
              THEN PathJoin(USER_HOME, ctx.user_info.v.user) ELSE <<>>)

\* C29 witness: an invocation for user u whose root hook ran, that appended
\* u to passwd, dropped privileges, set the three variables and went on to
\* its command.
C29_Witness ==
    /\ Rebound
    /\ ctx.user_info.v.user = <<"u">>
    /\ env["HOME"] = Text(<<"/", "h", "o", "m", "e", "/", "u">>)
    /\ Issued("root_hook.run")
    /\ AppendedWhole("passwd")
    /\ exit.k = "replaced"

----------------------------------------------------------------------------
\* Properties of two invocations on one account file.

\* the name both invocations provision
ConcName == IF arg.op = "add_group" THEN arg.uis[1].group ELSE arg.uis[1].user

\* how many records of that name the file holds
SameNamed(bytes) ==
    Cardinality({i \in 1..Len(ItemsOf(bytes)) :
                    ItemsOf(bytes)[i].ok /\ ItemsOf(bytes)[i].v.name = ConcName})

AllDone == \A p \in Invocations : ret[p].pc = "done"

\* invocation p appended its whole record line
WroteWhole(p) == ret[p].wrote = StepData(arg.op, arg.uis[p])

\* invocation p ended its scan before anything was appended
ScannedFirst(p) == ret[p].scan = "append" /\ ret[p].seen = arg.bytes

\* the file is what it was, then the bytes of p, then the bytes of q
AppendedInOrder(p, q) == ConcFile = arg.bytes \o ret[p].wrote \o ret[q].wrote

\* C27: without locking, two invocations at the same step for the same name
\* can both end their scan before either appends, and then both append;
\* the file then holds two records of that name, with equal or different
\* ids.  On a file that held whole lines that is also the only way two
\* such records get appended: an invocation that scans after the other has
\* appended its line finds the name and appends nothing.
C27_DuplicatesByRace ==
    Terminated(arg.bytes) =>
        /\ (\A p \in Invocations : WroteWhole(p)) =>
              \A p \in Invocations : ScannedFirst(p)
        /\ (\A p \in Invocations : ScannedFirst(p) /\ WroteWhole(p)) =>
              /\ SameNamed(ConcFile) = 2
              /\ AppendedInOrder(1, 2) \/ AppendedInOrder(2, 1)

\* C27 witness: both invocations of add_group, asking for group g under
\* different gids, have returned Ok and the file holds g twice.
C27_Witness ==
    /\ arg.op = "add_group"
    /\ arg.uis[1].gid # arg.uis[2].gid
    /\ arg.bytes # <<>>
    /\ AllDone
    /\ \A p \in Invocations : ret[p].ok /\ WroteWhole(p)
    /\ SameNamed(ConcFile) = 2

\* every line the file held at first is in its place, and the line of every
\* invocation that appended and returned Ok is a line of the file
NoLineLost ==
    /\ \A i \in 1..Len(ReadLines(arg.bytes)) :
          /\ i <= Len(ReadLines(ConcFile))
          /\ ReadLines(ConcFile)[i] = ReadLines(arg.bytes)[i]
    /\ \A p \in Invocations :
          (ret[p].ok /\ ret[p].wrote # <<>>) =>
              \E i \in 1..Len(ReadLines(ConcFile)) :
                  ReadLines(ConcFile)[i] = StepData(arg.op, arg.uis[p])

\* C28, as stated: under every interleaving no record is lost or
\* overwritten: every line present at first and every line appended by
\* either invocation is present, whole, in the final file.
C28_NoLineLost == AllDone => NoLineLost

\* the bytes invocation p wrote are where it wrote them
InPlace(p) ==
    SubSeq(ConcFile, ret[p].at + 1, ret[p].at + Len(ret[p].wrote)) = ret[p].wrote

\* the bytes of p and of q do not overlap
Apart(p, q) ==
    \/ ret[p].wrote = <<>>
    \/ ret[q].wrote = <<>>
    \/ ret[p].at + Len(ret[p].wrote) <= ret[q].at
    \/ ret[q].at + Len(ret[q].wrote) <= ret[p].at

\* C28, amended: under every interleaving no byte is lost or overwritten:
\* the content the file had at first is a prefix of its content, the bytes
\* each invocation wrote stay where they were written, one write after the
\* other, and the file holds nothing else.  Every line present at first and
\* every line appended is therefore present, whole, in the final file when
\* the file at first was empty or ended in a newline and neither write was
\* cut short; otherwise an appended line joins the unfinished line before it.
C28_NoByteLost ==
    /\ IsPrefix(arg.bytes, ConcFile)
    /\ \A p \in Invocations : InPlace(p)
    /\ Apart(1, 2)
    /\ Len(ConcFile) = Len(arg.bytes) + Len(ret[1].wrote) + Len(ret[2].wrote)
    /\ (/\ Terminated(arg.bytes)
        /\ \A p \in Invocations : ret[p].wrote = <<>> \/ WroteWhole(p))
          => NoLineLost

\* C28 witness: two invocations of add_user that both ended their scan
\* before either wrote; the second wrote through a handle that stood
\* before the first one's line, and both lines are in the file.
C28_Witness ==
    /\ arg.op = "add_user"
    /\ arg.bytes # <<>>
    /\ AllDone
    /\ \A p \in Invocations : ScannedFirst(p) /\ WroteWhole(p) /\ ret[p].ok
    /\ ret[1].at # ret[2].at
    /\ NoLineLost

----------------------------------------------------------------------------
\* Properties of the later stages of an invocation.

\* the variables the invocation reads and is to clear from the environment
ConsumedNames ==
    {"SCUBAINIT_UID", "SCUBAINIT_GID", "SCUBAINIT_USER", "SCUBAINIT_GROUP",
     "SCUBAINIT_UMASK", "SCUBAINIT_HOOK_USER", "SCUBAINIT_HOOK_ROOT",
     "SCUBAINIT_VERBOSE", "PWD", "OLDPWD", "XAUTHORITY"}

\* a child is about to be started: a configured hook or the target program
ChildStarts ==
    \/ pc = "call_root_hook" /\ ctx.root_hook.some
    \/ pc = "call_user_hook" /\ ctx.user_hook.some
    \/ pc = "exec" /\ argv # <<>>

\* C31: configuration variables are consumed: once process_envvars has
\* returned Ok every variable it popped is unset, so when the root hook, the
\* user hook or the target program starts, none of SCUBAINIT_UID,
\* SCUBAINIT_GID, SCUBAINIT_USER, SCUBAINIT_GROUP, SCUBAINIT_UMASK,
\* SCUBAINIT_HOOK_USER, SCUBAINIT_HOOK_ROOT, SCUBAINIT_VERBOSE, PWD, OLDPWD,
\* XAUTHORITY is present in the environment.
C31_Consumed == ChildStarts => \A n \in ConsumedNames : env[n] = Unset

----------------------------------------------------------------------------
\* Properties of the reader's treatment of a line.

\* every character of the line is whitespace
AllWhitespace(line) == \A j \in 1..Len(line) : IsWhitespace(line[j])

\* the line up to and including its last character that is not whitespace
Inked(line) ==
    LET ink == {j \in 1..Len(line) : ~IsWhitespace(line[j])}
    IN  SubSeq(line, 1, CHOOSE j \in ink : \A k \in ink : k <= j)

\* the lines of valid UTF-8 set aside as comments, or as blank when empty
\* once the newline is removed
SkippedIfEmpty(line) ==
    ValidUtf8(line) /\ (Comment(line) \/ TrimEnd_NewlineOnly(line) = <<>>)

\* the lines of valid UTF-8 set aside as comments, or as blank when made of
\* whitespace only
SkippedIfWhite(line) == ValidUtf8(line) /\ (Comment(line) \/ AllWhitespace(line))

\* the items of a file whose lines are set aside by Skip and handed to
\* from_line as Shown
ItemsShown(Skip(_), Shown(_)) ==
    LET kept == SelectSeq(ReadLines(arg.bytes), LAMBDA l : ~Skip(l))
    IN  [i \in 1..Len(kept) |->
            IF ValidUtf8(kept[i]) THEN FromLine(arg.schema, Shown(kept[i]))
            ELSE ParseErr("Io")]

\* C32, as stated: the reader removes only the trailing newline of a line
\* before parsing: every other character of a non-skipped line, trailing
\* spaces or tabs of its last field included, reaches from_line unchanged,
\* and a line is blank only if it is empty once its newline is removed.
C32_NewlineOnly ==
    Answered("read") => ret.items = ItemsShown(SkippedIfEmpty, TrimEnd_NewlineOnly)

\* C32, amended: the reader removes every trailing whitespace character of
\* a line before parsing (the newline and any spaces, tabs or carriage
\* returns before it): from_line gets the line up to its last character
\* that is not whitespace, every character before that one unchanged, and a
\* line is blank when it holds nothing but whitespace.
C32_TrailingWhitespace ==
    Answered("read") => ret.items = ItemsShown(SkippedIfWhite, Inked)

\* C32 witness: a group file of a line of one space and a record whose last
\* field ends in a space, read as the one record with the member "u".
C32_Witness ==
    /\ Answered("read")
    /\ arg.schema = "group"
    /\ ReadLines(arg.bytes) =
         << <<" ", "\n">>, <<"g", ":", "x", ":", "8", ":", "u", " ", "\n">> >>
    /\ ret.items = <<ParseOk([name |-> <<"g">>, passwd |-> <<"x">>, gid |-> 8,
                               members |-> << <<"u">> >>])>>

----------------------------------------------------------------------------
\* Properties of a failed invocation.

\* the step op was carried out and returned Ok
Kept(op) == \E i \in 1..Len(trace) : trace[i].op = op /\ trace[i].ok

\* the step op was carried out and returned an error
Refused(op) == Returned /\ LastOp = op /\ ~trace[Len(trace)].ok

\* an open and a write the operating system carries out in full
FullWrite == [k |-> "ok", n |-> 0]

\* the home directory as make_homedir leaves it
MadeHomedir ==
    [exists |-> TRUE, mode |-> 448, uid |-> ctx.user_info.v.uid,
     gid |-> ctx.user_info.v.gid]

\* add_user found a record of the requested name with another uid
NameConflict ==
    /\ Refused("add_user")
    /\ PasswdScan(ReadLines(orig.files.passwd), ctx.user_info.v.user,
                  ctx.user_info.v.uid) = "conflict"

----------------------------------------------------------------------------
\* Properties of the end of run_scubainit.

\* the stages before the exec, with or without an identity
StagesBeforeExec(c) ==
    IF c.user_info.some
    THEN SubSeq(ExpectedStages(c), 1, Len(ExpectedStages(c)) - 1)
    ELSE <<"process_envvars">> \o HookStages("root_hook", c.root_hook)
         \o (IF c.umask.some THEN <<"umask">> ELSE <<>>)

\* every stage before the exec was carried out and returned Ok
AllCarriedOut ==
    /\ TraceOps = StagesBeforeExec(ctx)
    /\ \A i \in 1..Len(trace) : trace[i].ok

\* the account files, the home directory and the process identity are the
\* ones provisioning and the privilege drop leave
IdentityChanged ==
    /\ homedir = MadeHomedir
    /\ files = [group |-> add_group(orig.files.group, ctx.user_info.v, FullWrite).bytes,
                passwd |-> add_user(orig.files.passwd, ctx.user_info.v, FullWrite).bytes,
                shadow |-> add_shadow(orig.files.shadow, ctx.user_info.v, FullWrite).bytes]
    /\ proc.uid = ctx.user_info.v.uid
    /\ proc.gid = ctx.user_info.v.gid
    /\ proc.groups = {}

\* C34: a missing target command is detected last: when the argument vector
\* after the program name is empty, run_scubainit returns an error either
\* because an earlier step failed or, with 'Missing command', only after
\* provisioning, the root hook, the privilege drop, the umask and the user
\* hook have all been carried out, so the account files and the process
\* identity have already been changed when the error is reported.
C34_MissingCommandLast ==
    (argv = <<>> /\ result = "Err") =>
        \/ ~trace[Len(trace)].ok
        \/ /\ AllCarriedOut
           /\ ctx.user_info.some => IdentityChanged
           /\ ctx.umask.some => proc.umask = BitAnd(ctx.umask.v, 511)

\* C34 witness: no command was given and the invocation exited after it
\* appended to the three account files, ran both hooks, set the umask and
\* became the requested user.
C34_Witness ==
    /\ argv = <<>>
    /\ pc = "exited"
    /\ AllCarriedOut
    /\ ctx.user_info.some /\ ctx.root_hook.some /\ ctx.user_hook.some /\ ctx.umask.some
    /\ files.group # orig.files.group
    /\ files.passwd # orig.files.passwd
    /\ files.shadow # orig.files.shadow
    /\ proc.uid = 7

----------------------------------------------------------------------------
\* Properties of the scan of add_group, add_user and add_shadow.

\* item it decides the scan: it is an error or a record of the requested name
Decisive(it) == ~it.ok \/ Named(it)

\* the i-th item is the first decisive item of the file call k found
DecidedAt(k, i) ==
    /\ i \in 1..Len(CallItems(k))
    /\ Decisive(CallItems(k)[i])
    /\ \A j \in 1..(i - 1) : ~Decisive(CallItems(k)[j])

\* what the scan returns on a record of the requested name
Verdict(it) ==
    IF arg.op = "add_shadow" \/ ItemId(it) = WantedId THEN "" ELSE "conflict"

\* C35: the scan of add_group, add_user and add_shadow stops at the first
\* decisive item in file order.  When that item is a record with the
\* requested name the call returns on that record alone (Ok, or a conflict
\* for another id) and appends nothing, whatever the later lines hold: a
\* malformed line or a conflicting duplicate after it has no effect.  When
\* that item is a malformed line or a read error, met before any record with
\* the requested name, the call fails with that error and appends nothing.
C35_FirstDecisive ==
    \A k \in 1..Len(ret) :
        \A i \in 1..Len(CallItems(k)) :
            (Opened(k) /\ DecidedAt(k, i)) =>
                /\ ret[k].after = ret[k].before
                /\ IF Named(CallItems(k)[i])
                   THEN /\ ret[k].err = Verdict(CallItems(k)[i])
                        /\ ret[k].ok <=> Verdict(CallItems(k)[i]) = ""
                   ELSE /\ ~ret[k].ok
                        /\ ret[k].err = CallItems(k)[i].err

\* C35 witness: add_user on a file whose first line is the record asked for
\* and whose second line is malformed returns Ok and appends nothing.
C35_Witness ==
    /\ Len(ret) = 1
    /\ arg.op = "add_user"
    /\ Len(CallItems(1)) = 2
    /\ Named(CallItems(1)[1])
    /\ ~CallItems(1)[2].ok
    /\ ret[1].ok
    /\ ret[1].after = arg.bytes

----------------------------------------------------------------------------
\* Properties of the order in which from_line meets its errors.

\* the i-th field from_line asks for fails: the fields have run out, or the
\* field is numeric and holds no value its schema takes
FieldFails(schema, parts, i) ==
    IF i > Len(parts) THEN TRUE
    ELSE i \in NumericAt(schema) /\ ~FieldParses(schema, parts[i])

\* the positions at which from_line fails on the line, were it to go on
FailingAt(schema, parts) ==
    {i \in 1..RequiredFields(schema) : FieldFails(schema, parts, i)}

\* the leftmost of them
FirstFailing(schema, parts) ==
    CHOOSE i \in FailingAt(schema, parts) : \A j \in FailingAt(schema, parts) : i <= j

\* the line has too few fields and one of the numeric fields it has is bad
ShortAndBad(schema, parts) ==
    /\ Len(parts) < RequiredFields(schema)
    /\ \E i \in NumericAt(schema) : i <= Len(parts) /\ ~FieldParses(schema, parts[i])

\* C36: parse errors are decided field by field from left to right:
\* from_line succeeds when no field fails and otherwise returns the error of
\* the leftmost failing field, Invalid when the fields ran out there and
\* ParseInt when a numeric field there holds no number; the fields after it
\* do not matter.  A line that has a bad numeric field and also too few
\* fields yields ParseInt, the bad field lying before the point where the
\* fields run out.
C36_LeftmostError ==
    Answered("from_line") =>
        /\ ret.back.ok <=> FailingAt(arg.schema, Parts) = {}
        /\ ~ret.back.ok =>
              ret.back.err =
                  (IF FirstFailing(arg.schema, Parts) > Len(Parts)
                   THEN "Invalid" ELSE "ParseInt")
        /\ ShortAndBad(arg.schema, Parts) => ret.back = ParseErr("ParseInt")

\* C36 witness: a passwd line of four fields whose uid is not a number
\* fails with ParseInt, not Invalid.
C36_Witness ==
    /\ Answered("from_line")
    /\ arg.schema = "passwd"
    /\ Len(Parts) = 4
    /\ ~Numeric(Parts[3])
    /\ ret.back = ParseErr("ParseInt")

----------------------------------------------------------------------------
\* Properties of the width of the numeric fields.

\* the numeral of a number as str::parse::<u32> reads one, without the '+'
\* and the leading zeros
Numeral(v) == Canonical(IF Head(v) = "+" THEN Tail(v) ELSE v)

\* the value parsed is the number written: its decimal text is the numeral
Reads(value, v) == U32ToString(value) = Numeral(v)

\* the numeric fields the line has
NumericParts(schema, parts) == {i \in NumericAt(schema) : i <= Len(parts)}

\* C37: numeric fields are unsigned 32-bit with no wrap-around: a required
\* numeric field parses exactly when it holds a numeral (with or without a
\* '+') of a value in 0..4294967295, and the number returned is the number
\* written; a value of 4294967296 or more, a negative value and the empty
\* string yield ParseInt; an optional field differs only in that the empty
\* string yields absent.  Every uid, gid and shadow number of a record
\* from_line returns is the number its field holds, and a line with such a
\* bad value in a numeric field fails with ParseInt.
C37_Unsigned32 ==
    /\ Answered("next_field_u32") =>
          /\ ret.required.ok <=> Numeric(arg.input)
          /\ ret.required.ok => Reads(ret.required.v, arg.input)
          /\ ~ret.required.ok => ret.required = ParseErr("ParseInt")
          /\ ret.optional =
               (IF arg.input = <<>> THEN ParseOk(None)
                ELSE IF ret.required.ok THEN ParseOk(Some(ret.required.v))
                ELSE ParseErr("ParseInt"))
    /\ Answered("from_line") =>
          /\ (\E i \in NumericParts(arg.schema, Parts) :
                  ~FieldParses(arg.schema, Parts[i]))
                => ret.back = ParseErr("ParseInt")
          /\ ret.back.ok =>
                /\ arg.schema = "group" => Reads(ret.back.v.gid, Parts[3])
                /\ arg.schema = "passwd" =>
                      Reads(ret.back.v.uid, Parts[3]) /\ Reads(ret.back.v.gid, Parts[4])
                /\ arg.schema = "shadow" =>
                      \A i \in 1..6 :
                          ShadowOptional(ret.back.v)[i].some =>
                              Reads(ShadowOptional(ret.back.v)[i].v, Parts[i + 2])

\* C37 witness: 4294967295, the largest u32, parsed as itself.
C37_Witness ==
    /\ Answered("next_field_u32")
    /\ arg.input = U32MaxText
    /\ ret.required.ok
    /\ U32Hi(ret.required.v) = 65535 /\ U32Lo(ret.required.v) = 65535
    /\ ret.optional = ParseOk(Some(ret.required.v))

====
